---- MODULE Spec2Model ----
(***************************************************************************)
(* PolyAgents: a model of the fault-tolerance primitives and of the        *)
(* orchestrator's turn loop.                                               *)
(*                                                                         *)
(*   - SecurityManager._check_rate_limit_internal   (app/security.py)      *)
(*   - CircuitBreaker and ErrorHandler.execute_with_retry                  *)
(*                                                  (app/error_handling.py)*)
(*   - Orchestrator.run_conversation[_with_streaming] (app/orchestrator.py)*)
(*                                                                         *)
(* Each component has its own specification (SpecRateLimit, SpecBreaker,   *)
(* SpecConversation); the variables of the other components stay at their  *)
(* initial values.  Time is a discrete clock advanced by a Tick action.    *)
(***************************************************************************)
EXTENDS Integers, Sequences, FiniteSets, TLC

Min(a, b) == IF a <= b THEN a ELSE b

\* Python's None for an optional number (time stamps are never negative).
None == 0 - 1

\* The rate limiter.
VARIABLES
    rl_now,        \* time.time()
    rate_limits,   \* SecurityManager.rate_limits: identifier -> RateLimitInfo
    rl_result,     \* identifier -> what the last call returned
    rl_seq,        \* history: identifier -> requests made since the bucket was (re)set
    rl_window,     \* history: identifier -> requests admitted since the bucket was (re)set
    rl_admitted    \* history: identifier -> time -> requests admitted at that time

rlvars == <<rl_now, rate_limits, rl_result, rl_seq, rl_window, rl_admitted>>

\* The circuit breaker and the calls made through it.
VARIABLES
    cb_now,     \* datetime.utcnow()
    breaker,    \* the CircuitBreaker of the dependency
    call,       \* caller -> the call it is making (execute_with_retry or decorator)
    cb_calls,   \* number of calls started
    cb_last,    \* history: the step taken last, and by which caller
    cb_streak,  \* history: failures recorded since the last recorded success
    cb_probes,  \* history: successes recorded in HalfOpen since the breaker entered it
    cb_opened   \* history: the time at which the breaker last moved to Open

cbvars == <<cb_now, breaker, call, cb_calls, cb_last, cb_streak, cb_probes, cb_opened>>

\* One conversation run by the orchestrator.
VARIABLES
    conv,             \* the conversation task: where it is, and its locals
    tasks,            \* agent -> its task of the current turn (asyncio.gather)
    audit,            \* PostgresLogger: the rows of the messages table, in order
    bus,              \* RedisBus: the entries of the stream chat:<conversation_id>
    results,          \* PostgresLogger: number of rows of the conversations table
    events,           \* history: the events sent through the WebSocket manager
    redis_connected,  \* RedisBus.connected
    pg_connected,     \* PostgresLogger.connected
    gemini_available, \* the calls of the Gemini API succeed
    outages,          \* number of disconnections so far
    consensus_calls,  \* history: calls of ConsensusEngine.reach_consensus
    replied           \* history: turn -> the agents whose task returned a Message

convvars == <<conv, tasks, audit, bus, results, events, redis_connected,
              pg_connected, gemini_available, outages, consensus_calls, replied>>

\* One call of the consensus engine.
VARIABLES
    cs_pc,               \* "idle", "input" (the input is being given) or "done"
    cs_via,              \* "run": the input is built by run_conversation;
                         \* "direct": reach_consensus is called with any list
    consensus_messages,  \* the list of messages given to reach_consensus
    consensus_result     \* the ConsensusResult returned, or what was raised

csvars == <<cs_pc, cs_via, consensus_messages, consensus_result>>

\* The WebSocket manager and the subscribers of one conversation.
VARIABLES
    active_connections,  \* the set active_connections[conversation_id]
    ws_new,              \* the WebSockets that have not connected yet
    ws_broken,           \* the WebSockets whose send_text raises
    hub_pub,             \* publisher -> its call of send_to_conversation
    published,           \* history: the events in the order of their publication
    delivered,           \* history: WebSocket -> the events written to it, in order
    attached_at          \* history: WebSocket -> Len(published) when it connected

hubvars == <<active_connections, ws_new, ws_broken, hub_pub, published,
             delivered, attached_at>>

\* One consumer of a consumer group of one stream.
VARIABLES
    stream_len,         \* the stream holds the entries 1..stream_len
    last_delivered_id,  \* the group's last-delivered-id (">" reads after it)
    pending,            \* the group's pending entries list
    sub_pc,             \* "read", "handle" or "ack": where _consume_messages is
    sub_batch,          \* the entries of the last xreadgroup not processed yet
    handler_calls,      \* history: entry -> number of calls of the handler
    handled,            \* history: the entries whose handler returned
    acked,              \* history: the entries acknowledged
    handler_failures    \* number of calls of the handler that raised

subvars == <<stream_len, last_delivered_id, pending, sub_pc, sub_batch,
             handler_calls, handled, acked, handler_failures>>

\* The API keys of the SecurityManager.
VARIABLES
    api_keys,   \* SecurityManager.api_keys: key_hash -> APIKey
    revoked,    \* history: the keys given to a revoke_api_key that returned True
    auth_last   \* history: the last operation, its key and its outcome

authvars == <<api_keys, revoked, auth_last>>

\* The Orchestrator object, the callers of initialize and the runs.
VARIABLES
    initialized,        \* Orchestrator.initialized
    agents,             \* Orchestrator.agents, as the agent numbers in order
    connected,          \* RedisBus.connected and PostgresLogger.connected
    init_pc,            \* caller -> where its call of initialize is
    init_calls,         \* number of calls of initialize
    cleanups,           \* number of calls of cleanup
    connect_calls,      \* history: calls of connect() on the bus and the logger
    initialisations,    \* history: times the flag went from False to True
    runs,               \* run -> where it is, and its conversation_id
    message_rows,       \* PostgresLogger: the rows of the messages table
    conversation_rows   \* PostgresLogger: the primary keys of conversations

orchvars == <<initialized, agents, connected, init_pc, init_calls, cleanups,
              connect_calls, initialisations, runs, message_rows,
              conversation_rows>>

\* The streams of the bus and their cleanup.
VARIABLES
    wall_time,     \* the wall clock, in seconds
    loop_time,     \* asyncio.get_event_loop().time(), in seconds
    streams,       \* stream -> the id of its last entry (ms), None when absent
    cleanup_call   \* the call of cleanup_old_conversations and its locals, with
                   \* history: the wall clock and the streams at the call, and
                   \* the streams it deleted

busvars == <<wall_time, loop_time, streams, cleanup_call>>

vars == <<rlvars, cbvars, convvars, csvars, hubvars, subvars, authvars, orchvars,
          busvars>>

\* What a step of one component leaves alone.
RateLimitOnly ==
    UNCHANGED <<cbvars, convvars, csvars, hubvars, subvars, authvars, orchvars,
               busvars>>
BreakerOnly ==
    UNCHANGED <<rlvars, convvars, csvars, hubvars, subvars, authvars, orchvars,
               busvars>>
ConversationOnly ==
    UNCHANGED <<rlvars, cbvars, csvars, hubvars, subvars, authvars, orchvars,
               busvars>>
ConsensusOnly ==
    UNCHANGED <<rlvars, cbvars, convvars, hubvars, subvars, authvars, orchvars,
               busvars>>
HubOnly ==
    UNCHANGED <<rlvars, cbvars, convvars, csvars, subvars, authvars, orchvars,
               busvars>>
SubscribeOnly ==
    UNCHANGED <<rlvars, cbvars, convvars, csvars, hubvars, authvars, orchvars,
               busvars>>
AuthOnly ==
    UNCHANGED <<rlvars, cbvars, convvars, csvars, hubvars, subvars, orchvars,
               busvars>>
OrchestratorOnly ==
    UNCHANGED <<rlvars, cbvars, convvars, csvars, hubvars, subvars, authvars,
               busvars>>
BusOnly ==
    UNCHANGED <<rlvars, cbvars, convvars, csvars, hubvars, subvars, authvars,
               orchvars>>

(***************************************************************************)
(* Rate limiter  (SecurityConfig, RateLimitInfo, SecurityManager)          *)
(***************************************************************************)

\* SecurityConfig.RATE_LIMIT_REQUESTS is 100, RATE_LIMIT_WINDOW 3600 and
\* RATE_LIMIT_BURST 10 in the source, and the block lasts min(300, window);
\* the model keeps their order (block <= window) at a small scale.
RATE_LIMIT_REQUESTS == 2
RATE_LIMIT_WINDOW == 3
RATE_LIMIT_BURST == 1
BLOCK_SECONDS == 2

\* The clock of the rate limiter runs from 0 to RlMaxTime.
RlMaxTime == 8

\* The identities "client_id:client_ip" that send requests.
Identifiers == {"c1:ip1"}

\* At most this many requests are sent to one bucket between two resets.
RlMaxRequests == RATE_LIMIT_REQUESTS + RATE_LIMIT_BURST + 2

\* The default factory of rate_limits: a bucket created at time t.
NewRateLimitInfo(t) ==
    [requests_made |-> 0, window_start |-> t,
     burst_tokens |-> RATE_LIMIT_BURST, blocked_until |-> None]

\* "Check if we're in a new window"
WindowExpired(rl, t) == t - rl.window_start > RATE_LIMIT_WINDOW

ResetWindow(rl, t) ==
    IF WindowExpired(rl, t)
    THEN [requests_made |-> 0, window_start |-> t,
          burst_tokens |-> RATE_LIMIT_BURST, blocked_until |-> None]
    ELSE rl

Allowed(rl, kind) ==
    [rl |-> rl, allowed |-> TRUE, kind |-> kind, retry_after |-> None]

Rejected(rl, retry) ==
    [rl |-> rl, allowed |-> FALSE, kind |-> "blocked", retry_after |-> retry]

\* Mutant: the regular quota is compared with <= (one request too many).
CheckRateLimitInternal_OffByOne(rl0, t) ==
    LET rl == ResetWindow(rl0, t) IN
    IF rl.blocked_until # None /\ t < rl.blocked_until
    THEN Rejected(rl, rl.blocked_until - t)
    ELSE IF rl.burst_tokens > 0
    THEN Allowed([rl EXCEPT !.burst_tokens = @ - 1], "burst")
    ELSE IF rl.requests_made <= RATE_LIMIT_REQUESTS
    THEN Allowed([rl EXCEPT !.requests_made = @ + 1], "regular")
    ELSE LET block_duration == Min(BLOCK_SECONDS, RATE_LIMIT_WINDOW) IN
         Rejected([rl EXCEPT !.blocked_until = t + block_duration], block_duration)

\* Mutant: the regular quota is consumed before the burst tokens.
CheckRateLimitInternal_RegularFirst(rl0, t) ==
    LET rl == ResetWindow(rl0, t) IN
    IF rl.blocked_until # None /\ t < rl.blocked_until
    THEN Rejected(rl, rl.blocked_until - t)
    ELSE IF rl.requests_made < RATE_LIMIT_REQUESTS
    THEN Allowed([rl EXCEPT !.requests_made = @ + 1], "regular")
    ELSE IF rl.burst_tokens > 0
    THEN Allowed([rl EXCEPT !.burst_tokens = @ - 1], "burst")
    ELSE LET block_duration == Min(BLOCK_SECONDS, RATE_LIMIT_WINDOW) IN
         Rejected([rl EXCEPT !.blocked_until = t + block_duration], block_duration)

\* _check_rate_limit_internal on the bucket rl0 at time t: the bucket it leaves
\* and the (allowed, info) pair it returns.
CheckRateLimitInternal(rl0, t) ==
    LET rl == ResetWindow(rl0, t) IN
    IF rl.blocked_until # None /\ t < rl.blocked_until
    THEN Rejected(rl, rl.blocked_until - t)
    ELSE IF rl.burst_tokens > 0
    THEN Allowed([rl EXCEPT !.burst_tokens = @ - 1], "burst")
    ELSE IF rl.requests_made < RATE_LIMIT_REQUESTS
    THEN Allowed([rl EXCEPT !.requests_made = @ + 1], "regular")
    ELSE LET block_duration == Min(BLOCK_SECONDS, RATE_LIMIT_WINDOW) IN
         Rejected([rl EXCEPT !.blocked_until = t + block_duration], block_duration)

NoResult == [allowed |-> TRUE, kind |-> "none", retry_after |-> None, fresh |-> FALSE]

\* Time passes.
RlTick ==
    /\ rl_now < RlMaxTime
    /\ rl_now' = rl_now + 1
    /\ UNCHANGED <<rate_limits, rl_result, rl_seq, rl_window, rl_admitted>>
    /\ RateLimitOnly

\* check_rate_limit(client_id, client_ip): one request of identity i.
CheckRateLimit(i) ==
    LET existed == i \in DOMAIN rate_limits
        rl0 == IF existed THEN rate_limits[i] ELSE NewRateLimitInfo(rl_now)
        fresh == ~existed \/ WindowExpired(rl0, rl_now)
        r == CheckRateLimitInternal(rl0, rl_now)
        seq0 == IF fresh THEN 0 ELSE rl_seq[i]
        win0 == IF fresh THEN 0 ELSE rl_window[i]
    IN  /\ seq0 < RlMaxRequests
        /\ rate_limits' = [j \in DOMAIN rate_limits \cup {i} |->
                              IF j = i THEN r.rl ELSE rate_limits[j]]
        /\ rl_result' = [rl_result EXCEPT ![i] =
                            [allowed |-> r.allowed, kind |-> r.kind,
                             retry_after |-> r.retry_after, fresh |-> fresh]]
        /\ rl_seq' = [rl_seq EXCEPT ![i] = seq0 + 1]
        /\ rl_window' = [rl_window EXCEPT ![i] = win0 + (IF r.allowed THEN 1 ELSE 0)]
        /\ rl_admitted' = [rl_admitted EXCEPT ![i][rl_now] =
                              @ + (IF r.allowed THEN 1 ELSE 0)]
        /\ UNCHANGED rl_now
        /\ RateLimitOnly

\* One pass of _cleanup_loop over rate_limits: buckets older than two windows
\* are deleted.
CleanupLoop ==
    LET expired_limits == {i \in DOMAIN rate_limits :
            rl_now - rate_limits[i].window_start > RATE_LIMIT_WINDOW * 2}
    IN  /\ expired_limits # {}
        /\ rate_limits' = [j \in DOMAIN rate_limits \ expired_limits |-> rate_limits[j]]
        /\ UNCHANGED <<rl_now, rl_result, rl_seq, rl_window, rl_admitted>>
        /\ RateLimitOnly

NextRateLimit ==
    \/ RlTick
    \/ \E i \in Identifiers : CheckRateLimit(i)
    \/ CleanupLoop


(***************************************************************************)
(* Circuit breaker and retry  (CircuitBreaker, ErrorHandler)               *)
(***************************************************************************)

\* CircuitBreakerConfig.failure_threshold is 5, timeout_seconds 60 and
\* success_threshold 3 in the source, RetryConfig.max_attempts 3; the model
\* runs them at a small scale.
FAILURE_THRESHOLD == 2
TIMEOUT_SECONDS == 2
SUCCESS_THRESHOLD == 2
MAX_ATTEMPTS == 2

\* The clock of the breaker runs from 0 to CbMaxTime.
CbMaxTime == 4

\* At most CbMaxCalls calls are started through the breaker.
CbMaxCalls == 4

\* The tasks that call through the one breaker of a dependency.
Callers == {1, 2}

\* CircuitBreakerState
CLOSED == "closed"
OPEN == "open"
HALF_OPEN == "half_open"

\* What the wrapped operation can raise, and what check_state raises.
OperationErrors == {"Exception", "NonRetryableError"}
CircuitBreakerOpenError == "CircuitBreakerOpenError"

\* RetryConfig.retryable_exceptions = (Exception,): every error is an instance.
RETRYABLE_EXCEPTIONS == OperationErrors \cup {CircuitBreakerOpenError}

\* CircuitBreaker.__init__
NewCircuitBreaker(t) ==
    [state |-> CLOSED, failure_count |-> 0, success_count |-> 0,
     last_failure_time |-> None, state_change_time |-> t]

\* Mutant: moving to Open keeps the time of the last change of state.
transition_to_open_KeepsTimer(cb, t) ==
    [cb EXCEPT !.state = OPEN, !.success_count = 0]

transition_to_open(cb, t) ==
    [cb EXCEPT !.state = OPEN, !.state_change_time = t, !.success_count = 0]

transition_to_half_open(cb, t) ==
    [cb EXCEPT !.state = HALF_OPEN, !.state_change_time = t, !.success_count = 0]

transition_to_closed(cb, t) ==
    [cb EXCEPT !.state = CLOSED, !.state_change_time = t,
               !.failure_count = 0, !.success_count = 0]

\* Mutant: an Open breaker whose timeout has not elapsed lets the call pass.
check_state_OpenPasses(cb, t) ==
    IF cb.state = OPEN /\ t - cb.state_change_time >= TIMEOUT_SECONDS
    THEN [cb |-> transition_to_half_open(cb, t), raised |-> FALSE]
    ELSE [cb |-> cb, raised |-> FALSE]

\* Mutant: the timeout is compared with > (HalfOpen one tick late).
check_state_Late(cb, t) ==
    IF cb.state = OPEN
    THEN IF t - cb.state_change_time > TIMEOUT_SECONDS
         THEN [cb |-> transition_to_half_open(cb, t), raised |-> FALSE]
         ELSE [cb |-> cb, raised |-> TRUE]
    ELSE [cb |-> cb, raised |-> FALSE]

\* check_state at time t: the breaker it leaves, and whether it raised
\* CircuitBreakerOpenError.
check_state(cb, t) ==
    IF cb.state = OPEN
    THEN IF t - cb.state_change_time >= TIMEOUT_SECONDS
         THEN [cb |-> transition_to_half_open(cb, t), raised |-> FALSE]
         ELSE [cb |-> cb, raised |-> TRUE]
    ELSE [cb |-> cb, raised |-> FALSE]

\* Mutant: the first success in HalfOpen closes the breaker.
record_success_FirstCloses(cb, t) ==
    IF cb.state = HALF_OPEN
    THEN transition_to_closed([cb EXCEPT !.success_count = @ + 1], t)
    ELSE IF cb.state = CLOSED
    THEN [cb EXCEPT !.failure_count = 0]
    ELSE cb

record_success(cb, t) ==
    IF cb.state = HALF_OPEN
    THEN LET c1 == [cb EXCEPT !.success_count = @ + 1] IN
         IF c1.success_count >= SUCCESS_THRESHOLD
         THEN transition_to_closed(c1, t)
         ELSE c1
    ELSE IF cb.state = CLOSED
    THEN [cb EXCEPT !.failure_count = 0]
    ELSE cb

\* Mutant: the threshold is compared with > (opens one failure late).
record_failure_Late(cb, t) ==
    LET c0 == [cb EXCEPT !.last_failure_time = t] IN
    IF c0.state = HALF_OPEN
    THEN transition_to_open(c0, t)
    ELSE IF c0.state = CLOSED
    THEN LET c1 == [c0 EXCEPT !.failure_count = @ + 1] IN
         IF c1.failure_count > FAILURE_THRESHOLD
         THEN transition_to_open(c1, t)
         ELSE c1
    ELSE c0

record_failure(cb, t) ==
    LET c0 == [cb EXCEPT !.last_failure_time = t] IN
    IF c0.state = HALF_OPEN
    THEN transition_to_open(c0, t)
    ELSE IF c0.state = CLOSED
    THEN LET c1 == [c0 EXCEPT !.failure_count = @ + 1] IN
         IF c1.failure_count >= FAILURE_THRESHOLD
         THEN transition_to_open(c1, t)
         ELSE c1
    ELSE c0

\* Mutant: every error is retried until the attempts are used up.
AfterFailure_RetriesAll(attempt, e) ==
    IF attempt = MAX_ATTEMPTS - 1 THEN "raise" ELSE "sleep"

\* Mutant: the test for the last attempt is missing.
AfterFailure_NoLastAttemptTest(attempt, e) ==
    IF e = "NonRetryableError" THEN "raise"
    ELSE IF e \notin RETRYABLE_EXCEPTIONS THEN "raise"
    ELSE "sleep"

\* The except clause of execute_with_retry after record_failure: "raise" leaves
\* the loop and re-raises, "sleep" backs off before the next attempt.
AfterFailure(attempt, e) ==
    IF attempt = MAX_ATTEMPTS - 1 THEN "raise"
    ELSE IF e = "NonRetryableError" THEN "raise"
    ELSE IF e \notin RETRYABLE_EXCEPTIONS THEN "raise"
    ELSE "sleep"

IdleCall ==
    [kind |-> "none", pc |-> "idle", attempt |-> 0, invoked |-> 0, slept |-> 0,
     last_exception |-> "none", result |-> "none"]

\* Time passes.
CbTick ==
    /\ cb_now < CbMaxTime
    /\ cb_now' = cb_now + 1
    /\ cb_last' = [op |-> "tick", by |-> 0]
    /\ UNCHANGED <<breaker, call, cb_calls, cb_streak, cb_probes, cb_opened>>
    /\ BreakerOnly

\* Caller p enters execute_with_retry (kind "execute") or a function wrapped
\* by with_circuit_breaker (kind "decorator").
StartCall(p, kind) ==
    /\ call[p].pc \in {"idle", "done"}
    /\ cb_calls < CbMaxCalls
    /\ cb_calls' = cb_calls + 1
    /\ call' = [call EXCEPT ![p] = [IdleCall EXCEPT !.kind = kind, !.pc = "attempt"]]
    /\ cb_last' = [op |-> "start", by |-> p]
    /\ UNCHANGED <<cb_now, breaker, cb_streak, cb_probes, cb_opened>>
    /\ BreakerOnly

\* History: a step that moves the breaker to Open stamps cb_opened.
Opened ==
    cb_opened' = IF breaker'.state = OPEN /\ breaker.state # OPEN
                 THEN cb_now ELSE cb_opened

\* The caller's state after a failure e of its current attempt.
Failed(c, e) ==
    IF c.kind = "decorator" \/ AfterFailure(c.attempt, e) = "raise"
    THEN [c EXCEPT !.pc = "done", !.last_exception = e, !.result = e]
    ELSE [c EXCEPT !.pc = "sleeping", !.last_exception = e, !.slept = @ + 1]

\* One pass through the head of the retry loop: check_state, then either the
\* operation is invoked, or CircuitBreakerOpenError is handled as a failure of
\* the attempt.
ExecuteAttempt(p) ==
    LET c == call[p]
        r == check_state(breaker, cb_now)
    IN  /\ c.kind = "execute" /\ c.pc = "attempt"
        /\ IF r.raised
           THEN /\ breaker' = record_failure(r.cb, cb_now)
                /\ call' = [call EXCEPT ![p] = Failed(c, CircuitBreakerOpenError)]
                /\ cb_last' = [op |-> "rejected", by |-> p]
                /\ cb_streak' = cb_streak + 1
                /\ UNCHANGED cb_probes
           ELSE /\ breaker' = r.cb
                /\ call' = [call EXCEPT ![p] = [c EXCEPT !.pc = "running", !.invoked = @ + 1]]
                /\ cb_last' = [op |-> "passed", by |-> p]
                /\ cb_probes' = IF r.cb.state # breaker.state THEN 0 ELSE cb_probes
                /\ UNCHANGED cb_streak
        /\ Opened
        /\ UNCHANGED <<cb_now, cb_calls>>
        /\ BreakerOnly

\* The wrapper of with_circuit_breaker: check_state is outside its try block.
DecoratedAttempt(p) ==
    LET c == call[p]
        r == check_state(breaker, cb_now)
    IN  /\ c.kind = "decorator" /\ c.pc = "attempt"
        /\ breaker' = r.cb
        /\ IF r.raised
           THEN /\ call' = [call EXCEPT ![p] = [c EXCEPT !.pc = "done",
                                !.last_exception = CircuitBreakerOpenError,
                                !.result = CircuitBreakerOpenError]]
                /\ cb_last' = [op |-> "rejected", by |-> p]
                /\ UNCHANGED cb_probes
           ELSE /\ call' = [call EXCEPT ![p] = [c EXCEPT !.pc = "running", !.invoked = @ + 1]]
                /\ cb_last' = [op |-> "passed", by |-> p]
                /\ cb_probes' = IF r.cb.state # breaker.state THEN 0 ELSE cb_probes
        /\ Opened
        /\ UNCHANGED <<cb_now, cb_calls, cb_streak>>
        /\ BreakerOnly

\* The wrapped operation returns: record_success, and the call returns.
OperationSucceeds(p) ==
    LET c == call[p] IN
        /\ c.pc = "running"
        /\ breaker' = record_success(breaker, cb_now)
        /\ call' = [call EXCEPT ![p] = [c EXCEPT !.pc = "done", !.result = "ok"]]
        /\ cb_last' = [op |-> "success", by |-> p]
        /\ cb_streak' = 0
        /\ cb_probes' = IF breaker.state = HALF_OPEN THEN cb_probes + 1 ELSE cb_probes
        /\ Opened
        /\ UNCHANGED <<cb_now, cb_calls>>
        /\ BreakerOnly

\* The wrapped operation raises e: record_failure, then retry or re-raise.
OperationFails(p, e) ==
    LET c == call[p] IN
        /\ c.pc = "running"
        /\ breaker' = record_failure(breaker, cb_now)
        /\ call' = [call EXCEPT ![p] = Failed(c, e)]
        /\ cb_last' = [op |-> "failure", by |-> p]
        /\ cb_streak' = cb_streak + 1
        /\ Opened
        /\ UNCHANGED <<cb_now, cb_calls, cb_probes>>
        /\ BreakerOnly

\* asyncio.sleep(delay) returns: the next iteration of the loop, or, when the
\* range is used up, the raise of the last exception.
WakeUp(p) ==
    LET c == call[p] IN
        /\ c.pc = "sleeping"
        /\ call' = [call EXCEPT ![p] =
                      IF c.attempt + 1 < MAX_ATTEMPTS
                      THEN [c EXCEPT !.pc = "attempt", !.attempt = @ + 1]
                      ELSE [c EXCEPT !.pc = "done", !.attempt = @ + 1,
                                     !.result = c.last_exception]]
        /\ cb_last' = [op |-> "wake", by |-> p]
        /\ UNCHANGED <<cb_now, breaker, cb_calls, cb_streak, cb_probes, cb_opened>>
        /\ BreakerOnly

NextBreaker ==
    \/ CbTick
    \/ \E p \in Callers : StartCall(p, "execute")
    \/ \E p \in Callers : StartCall(p, "decorator")
    \/ \E p \in Callers : ExecuteAttempt(p)
    \/ \E p \in Callers : DecoratedAttempt(p)
    \/ \E p \in Callers : OperationSucceeds(p)
    \/ \E p \in Callers : \E e \in OperationErrors : OperationFails(p, e)
    \/ \E p \in Callers : WakeUp(p)


(***************************************************************************)
(* Orchestrator: run_conversation and run_conversation_with_streaming      *)
(***************************************************************************)

\* settings.num_agents is 3 and n_turns defaults to 2 in the source.
NUM_AGENTS == 2
MaxTurns == 2

\* The bus, the audit store and the Gemini API are lost at most MaxOutages
\* times in all.
MaxOutages == 1

\* Orchestrator.agents, in the order of the list; agent_id of the i-th agent.
Agents == 1..NUM_AGENTS
AgentNames == <<"agent_0", "agent_1", "agent_2", "agent_3">>

\* What Agent.generate_response returns: the model's text, or the fallback
\* text of its except clause ("Agent <id> encountered an error: ...") when
\* call_gemini raised.
generate_response(available) == IF available THEN "reply" ELSE "fallback"

Message(sender, content, turn) ==
    [sender |-> sender, content |-> content, turn |-> turn]

\* get_conversation_history(channel, count=50)
HISTORY_COUNT == 50

\* settings.redis_stream_maxlen: the entries a stream keeps.
REDIS_STREAM_MAXLEN == 1000

\* redis_client.xadd(channel, message_data, maxlen=...): the entry is appended
\* and the oldest entries beyond maxlen are trimmed.
xadd(stream, m) ==
    LET s == Append(stream, m)
    IN  IF Len(s) > REDIS_STREAM_MAXLEN
        THEN SubSeq(s, Len(s) - REDIS_STREAM_MAXLEN + 1, Len(s))
        ELSE s

\* A task of asyncio.gather has finished: it returned, raised or was cancelled.
Terminated == {"returned", "raised", "cancelled"}

NoTask ==
    [pc |-> "none", turn |-> 0, content |-> "none", read |-> FALSE,
     history |-> <<>>, timestamp |-> 0]

\* Mutant: the join returns as soon as one task has finished.
GatherDone_FirstCompleted(ts) ==
    \E a \in Agents : ts[a].pc \in Terminated

\* await asyncio.gather(*agent_tasks, return_exceptions=True) returns.
GatherDone(ts) ==
    \A a \in Agents : ts[a].pc \in Terminated

RECURSIVE ResponsesFrom(_, _)
\* [resp for resp in agent_responses if isinstance(resp, Message)], from agent a on.
ResponsesFrom(ts, a) ==
    IF a > NUM_AGENTS THEN <<>>
    ELSE (IF ts[a].pc = "returned"
          THEN <<Message(AgentNames[a], ts[a].content, ts[a].turn)>>
          ELSE <<>>) \o ResponsesFrom(ts, a + 1)

\* Mutant: every valid response is kept twice.
ValidResponses_Twice(ts) == ResponsesFrom(ts, 1) \o ResponsesFrom(ts, 1)

\* Mutant: one exception among the results discards the whole turn.
ValidResponses_AllOrNothing(ts) ==
    IF \E a \in Agents : ts[a].pc # "returned" THEN <<>> ELSE ResponsesFrom(ts, 1)

ValidResponses(ts) == ResponsesFrom(ts, 1)

\* An exception reaches the except clause of the run: with a WebSocket manager
\* an error event is sent before the exception is raised again.
Raise(c, err) ==
    [c EXCEPT !.pc = IF c.hub THEN "pub_error" ELSE "failed", !.error = err]

\* Mutant: the loop over the turns does not count its turns.
NextTurn_NoCount(c) ==
    IF c.turn < c.n_turns
    THEN [c EXCEPT !.pc = IF c.hub THEN "pub_turn_started" ELSE "launch"]
    ELSE [c EXCEPT !.pc = IF c.hub THEN "pub_consensus_started" ELSE "consensus"]

\* The head of the loop over the turns, and the consensus phase after it.
NextTurn(c) ==
    IF c.turn < c.n_turns
    THEN [c EXCEPT !.turn = @ + 1,
                   !.pc = IF c.hub THEN "pub_turn_started" ELSE "launch"]
    ELSE [c EXCEPT !.pc = IF c.hub THEN "pub_consensus_started" ELSE "consensus"]

\* Mutant: a turn without a valid response is not an error.
AfterGather_NoCheck(c, valid) ==
    IF valid = <<>>
    THEN (IF c.hub THEN [c EXCEPT !.pc = "pub_turn_completed"] ELSE NextTurn(c))
    ELSE [c EXCEPT !.pc = "log_response", !.valid = valid, !.idx = 1]

\* After the join: "if not valid_responses: raise RuntimeError", else the loop
\* that logs the responses.
AfterGather(c, valid) ==
    IF valid = <<>>
    THEN (IF c.hub
          THEN [c EXCEPT !.pc = "pub_no_responses", !.error = "NoAgentResponses"]
          ELSE Raise(c, "NoAgentResponses"))
    ELSE [c EXCEPT !.pc = "log_response", !.valid = valid, !.idx = 1]

IdleConversation ==
    [pc |-> "idle", hub |-> FALSE, n_turns |-> 0, turn |-> 0,
     valid |-> <<>>, idx |-> 0, error |-> "none"]

\* The event sent at each send_to_conversation of the run.
EventOf(pc) ==
    CASE pc = "pub_started" -> "conversation_started"
      [] pc = "pub_message" -> "message"
      [] pc = "pub_turn_started" -> "turn_started"
      [] pc = "pub_no_responses" -> "error"
      [] pc = "pub_turn_completed" -> "turn_completed"
      [] pc = "pub_consensus_started" -> "consensus_started"
      [] pc = "pub_consensus_reached" -> "consensus_reached"
      [] pc = "pub_completed" -> "conversation_completed"
      [] pc = "pub_error" -> "error"

\* Where the run goes on after that send.
AfterPublish(c) ==
    CASE c.pc = "pub_started" -> [c EXCEPT !.pc = "log_user"]
      [] c.pc = "pub_message" -> NextTurn(c)
      [] c.pc = "pub_turn_started" -> [c EXCEPT !.pc = "launch"]
      [] c.pc = "pub_no_responses" -> Raise(c, "NoAgentResponses")
      [] c.pc = "pub_turn_completed" -> NextTurn(c)
      [] c.pc = "pub_consensus_started" -> [c EXCEPT !.pc = "consensus"]
      [] c.pc = "pub_consensus_reached" -> [c EXCEPT !.pc = "log_result"]
      [] c.pc = "pub_completed" -> [c EXCEPT !.pc = "completed"]
      [] c.pc = "pub_error" -> [c EXCEPT !.pc = "failed"]

PublishPcs == {"pub_started", "pub_message", "pub_turn_started", "pub_no_responses",
               "pub_turn_completed", "pub_consensus_started",
               "pub_consensus_reached", "pub_completed", "pub_error"}

Event(type, turn, agent) == [type |-> type, turn |-> turn, agent |-> agent]

\* run_conversation (hub = FALSE) or run_conversation_with_streaming with a
\* WebSocket manager (hub = TRUE) is called with n_turns = n.
StartConversation(hub, n) ==
    /\ conv.pc = "idle"
    /\ conv' = [conv EXCEPT !.hub = hub, !.n_turns = n,
                            !.pc = IF hub THEN "pub_started" ELSE "log_user"]
    /\ UNCHANGED <<tasks, audit, bus, results, events, redis_connected,
                   pg_connected, gemini_available, outages, consensus_calls,
                   replied>>
    /\ ConversationOnly

\* await websocket_manager.send_to_conversation(...) in the run.  The call
\* returns (ok), or it raises, as it does when the set of subscribers changes
\* size during its fan-out (SendTextEnds), after the event has reached some
\* of the subscribers or none; the except clause of the run then sends an
\* error event, and what that send raises leaves the run.
Publish(ok) ==
    /\ conv.pc \in PublishPcs
    /\ IF ok
       THEN /\ events' = events \cup {Event(EventOf(conv.pc), conv.turn, "run")}
            /\ conv' = AfterPublish(conv)
            /\ UNCHANGED outages
       ELSE /\ outages < MaxOutages
            /\ outages' = outages + 1
            /\ conv' = IF conv.pc = "pub_error"
                       THEN [conv EXCEPT !.pc = "failed", !.error = "HubError"]
                       ELSE Raise(conv, "HubError")
            /\ \E reached \in BOOLEAN :
                 events' = IF reached
                           THEN events \cup {Event(EventOf(conv.pc), conv.turn, "run")}
                           ELSE events
    /\ UNCHANGED <<tasks, audit, bus, results, redis_connected, pg_connected,
                   gemini_available, consensus_calls, replied>>
    /\ ConversationOnly

\* await self.postgres_logger.log_message(initial_msg)
LogUserMessage ==
    /\ conv.pc = "log_user"
    /\ IF pg_connected
       THEN /\ audit' = Append(audit, Message("user", "prompt", 0))
            /\ conv' = [conv EXCEPT !.pc = "send_user"]
       ELSE /\ conv' = Raise(conv, "NotConnected")
            /\ UNCHANGED audit
    /\ UNCHANGED <<tasks, bus, results, events, redis_connected, pg_connected,
                   gemini_available, outages, consensus_calls, replied>>
    /\ ConversationOnly

\* await self.redis_bus.send_message(channel, initial_msg)
SendUserMessage ==
    /\ conv.pc = "send_user"
    /\ IF redis_connected
       THEN /\ bus' = xadd(bus, Message("user", "prompt", 0))
            /\ conv' = IF conv.hub THEN [conv EXCEPT !.pc = "pub_message"]
                       ELSE NextTurn(conv)
       ELSE /\ conv' = Raise(conv, "NotConnected")
            /\ UNCHANGED bus
    /\ UNCHANGED <<tasks, audit, results, events, redis_connected, pg_connected,
                   gemini_available, outages, consensus_calls, replied>>
    /\ ConversationOnly

\* agent_tasks = [...]; asyncio.gather(*agent_tasks, return_exceptions=True):
\* one task per agent of self.agents.
LaunchAgents ==
    /\ conv.pc = "launch"
    /\ tasks' = [a \in Agents |->
                   [pc |-> IF conv.hub THEN "pub_thinking" ELSE "history",
                    turn |-> conv.turn, content |-> "none",
                    read |-> FALSE, history |-> <<>>, timestamp |-> 0]]
    /\ conv' = [conv EXCEPT !.pc = "gather"]
    /\ UNCHANGED <<audit, bus, results, events, redis_connected, pg_connected,
                   gemini_available, outages, consensus_calls, replied>>
    /\ ConversationOnly

\* _get_agent_response_with_streaming: the agent_thinking, agent_response and
\* agent_error events of agent a's task.  A send that raises (not ok) is
\* caught by the except clause of the task, which sends agent_error and raises.
AgentPublishes(a, ok) ==
    /\ tasks[a].pc \in {"pub_thinking", "pub_response", "pub_agent_error"}
    /\ LET t == tasks[a] IN
       IF ok
       THEN /\ CASE t.pc = "pub_thinking" ->
                   /\ events' = events \cup
                          {Event("agent_thinking", t.turn, AgentNames[a])}
                   /\ tasks' = [tasks EXCEPT ![a].pc = "history"]
                   /\ UNCHANGED replied
              [] t.pc = "pub_response" ->
                   /\ events' = events \cup
                          {Event("agent_response", t.turn, AgentNames[a])}
                   /\ tasks' = [tasks EXCEPT ![a].pc = "returned"]
                   /\ replied' = [replied EXCEPT ![t.turn] = @ \cup {a}]
              [] t.pc = "pub_agent_error" ->
                   /\ events' = events \cup
                          {Event("agent_error", t.turn, AgentNames[a])}
                   /\ tasks' = [tasks EXCEPT ![a].pc = "raised"]
                   /\ UNCHANGED replied
            /\ UNCHANGED outages
       ELSE /\ outages < MaxOutages
            /\ outages' = outages + 1
            /\ tasks' = [tasks EXCEPT ![a].pc =
                            IF t.pc = "pub_agent_error" THEN "raised"
                            ELSE "pub_agent_error"]
            /\ \E reached \in BOOLEAN :
                 events' = IF reached
                           THEN events \cup {Event(
                                  CASE t.pc = "pub_thinking" -> "agent_thinking"
                                    [] t.pc = "pub_response" -> "agent_response"
                                    [] t.pc = "pub_agent_error" -> "agent_error",
                                  t.turn, AgentNames[a])}
                           ELSE events
            /\ UNCHANGED replied
    /\ UNCHANGED <<conv, audit, bus, results, redis_connected, pg_connected,
                   gemini_available, consensus_calls>>
    /\ ConversationOnly

\* history = await self.redis_bus.get_conversation_history(channel): raises
\* RuntimeError("Redis not connected") when the bus is not connected.  When
\* it is, xrevrange returns the last HISTORY_COUNT entries (ok), or it raises,
\* as it does when the connection is lost while the bus still counts as
\* connected: the except clause of get_conversation_history then returns [].
AgentReadsHistory(a, ok) ==
    /\ tasks[a].pc = "history"
    /\ IF ~redis_connected
       THEN /\ ok
            /\ tasks' = [tasks EXCEPT ![a].pc =
                            IF conv.hub THEN "pub_agent_error" ELSE "raised"]
            /\ UNCHANGED outages
       ELSE /\ tasks' = [tasks EXCEPT
                  ![a].pc = "llm",
                  ![a].read = TRUE,
                  ![a].history =
                      IF ok
                      THEN SubSeq(bus, IF Len(bus) > HISTORY_COUNT
                                       THEN Len(bus) - HISTORY_COUNT + 1 ELSE 1,
                                  Len(bus))
                      ELSE <<>>]
            /\ ~ok => outages < MaxOutages
            /\ outages' = IF ok THEN outages ELSE outages + 1
    /\ UNCHANGED <<conv, audit, bus, results, events, redis_connected,
                   pg_connected, gemini_available, consensus_calls, replied>>
    /\ ConversationOnly

\* response_content = await agent.generate_response(history), then the
\* Message is constructed: its timestamp is datetime.utcnow() at that moment.
get_agent_response(a, timestamp) ==
    /\ tasks[a].pc = "llm"
    /\ tasks' = [tasks EXCEPT ![a].content = generate_response(gemini_available),
                              ![a].timestamp = timestamp,
                              ![a].pc = IF conv.hub THEN "pub_response" ELSE "returned"]
    /\ replied' = IF conv.hub THEN replied
                  ELSE [replied EXCEPT ![tasks[a].turn] = @ \cup {a}]
    /\ UNCHANGED <<conv, audit, bus, results, events, redis_connected,
                   pg_connected, gemini_available, outages, consensus_calls>>
    /\ ConversationOnly

\* The reply of an agent, the clock not being observed.
AgentGenerates(a) == get_agent_response(a, 0)

\* The join of the turn returns: the valid responses are filtered out.
CollectResponses ==
    /\ conv.pc = "gather"
    /\ GatherDone(tasks)
    /\ conv' = AfterGather(conv, ValidResponses(tasks))
    /\ UNCHANGED <<tasks, audit, bus, results, events, redis_connected,
                   pg_connected, gemini_available, outages, consensus_calls,
                   replied>>
    /\ ConversationOnly

\* Mutant: the response is not logged before it is sent to the bus.
LogResponse_NotLogged ==
    /\ conv.pc = "log_response"
    /\ conv' = [conv EXCEPT !.pc = "send_response"]
    /\ UNCHANGED <<tasks, audit, bus, results, events, redis_connected,
                   pg_connected, gemini_available, outages, consensus_calls,
                   replied>>
    /\ ConversationOnly

\* await self.postgres_logger.log_message(response)
LogResponse ==
    /\ conv.pc = "log_response"
    /\ IF pg_connected
       THEN /\ audit' = Append(audit, conv.valid[conv.idx])
            /\ conv' = [conv EXCEPT !.pc = "send_response"]
       ELSE /\ conv' = Raise(conv, "NotConnected")
            /\ UNCHANGED audit
    /\ UNCHANGED <<tasks, bus, results, events, redis_connected, pg_connected,
                   gemini_available, outages, consensus_calls, replied>>
    /\ ConversationOnly

\* await self.redis_bus.send_message(channel, response), and the next response
\* of the loop or the end of the turn.
SendResponse ==
    /\ conv.pc = "send_response"
    /\ IF redis_connected
       THEN /\ bus' = xadd(bus, conv.valid[conv.idx])
            /\ conv' = IF conv.idx < Len(conv.valid)
                       THEN [conv EXCEPT !.pc = "log_response", !.idx = @ + 1]
                       ELSE IF conv.hub THEN [conv EXCEPT !.pc = "pub_turn_completed"]
                       ELSE NextTurn(conv)
       ELSE /\ conv' = Raise(conv, "NotConnected")
            /\ UNCHANGED bus
    /\ UNCHANGED <<tasks, audit, results, events, redis_connected, pg_connected,
                   gemini_available, outages, consensus_calls, replied>>
    /\ ConversationOnly

\* consensus_result = await self.consensus_engine.reach_consensus(...): it
\* returns an outcome (ok) or raises.
ReachConsensus(ok) ==
    /\ conv.pc = "consensus"
    /\ consensus_calls' = consensus_calls + 1
    /\ conv' = IF ok THEN [conv EXCEPT !.pc = "log_consensus"]
               ELSE Raise(conv, "ConsensusError")
    /\ UNCHANGED <<tasks, audit, bus, results, events, redis_connected,
                   pg_connected, gemini_available, outages, replied>>
    /\ ConversationOnly

\* await self.postgres_logger.log_message(consensus_msg)
LogConsensus ==
    /\ conv.pc = "log_consensus"
    /\ IF pg_connected
       THEN /\ audit' = Append(audit, Message("consensus", "answer", conv.n_turns + 1))
            /\ conv' = [conv EXCEPT !.pc = IF conv.hub THEN "pub_consensus_reached"
                                           ELSE "log_result"]
       ELSE /\ conv' = Raise(conv, "NotConnected")
            /\ UNCHANGED audit
    /\ UNCHANGED <<tasks, bus, results, events, redis_connected, pg_connected,
                   gemini_available, outages, consensus_calls, replied>>
    /\ ConversationOnly

\* Mutant: the ConversationResult is written twice.
LogConversationResult_Twice ==
    /\ conv.pc = "log_result"
    /\ IF pg_connected
       THEN /\ results' = results + 2
            /\ conv' = [conv EXCEPT !.pc = IF conv.hub THEN "pub_completed"
                                           ELSE "completed"]
       ELSE /\ conv' = Raise(conv, "NotConnected")
            /\ UNCHANGED results
    /\ UNCHANGED <<tasks, audit, bus, events, redis_connected, pg_connected,
                   gemini_available, outages, consensus_calls, replied>>
    /\ ConversationOnly

\* await self.postgres_logger.log_conversation_result(result)
LogConversationResult ==
    /\ conv.pc = "log_result"
    /\ IF pg_connected
       THEN /\ results' = results + 1
            /\ conv' = [conv EXCEPT !.pc = IF conv.hub THEN "pub_completed"
                                           ELSE "completed"]
       ELSE /\ conv' = Raise(conv, "NotConnected")
            /\ UNCHANGED results
    /\ UNCHANGED <<tasks, audit, bus, events, redis_connected, pg_connected,
                   gemini_available, outages, consensus_calls, replied>>
    /\ ConversationOnly

\* The run is at one of its awaits.
InProgress == conv.pc \notin {"idle", "completed", "failed", "cancelled"}

\* The conversation task is cancelled at one of its awaits: CancelledError is
\* no Exception, so the except clause is skipped; a pending join cancels its
\* tasks.
CancelConversation ==
    /\ InProgress
    /\ conv' = [conv EXCEPT !.pc = "cancelled"]
    /\ tasks' = [a \in Agents |->
                   IF tasks[a].pc \in Terminated \cup {"none"} THEN tasks[a]
                   ELSE [tasks[a] EXCEPT !.pc = "cancelled"]]
    /\ UNCHANGED <<audit, bus, results, events, redis_connected, pg_connected,
                   gemini_available, outages, consensus_calls, replied>>
    /\ ConversationOnly

\* RedisBus.disconnect / RedisBus.connect (Orchestrator.cleanup, initialize)
\* while the conversation is running.
RedisDisconnect ==
    /\ InProgress
    /\ redis_connected /\ outages < MaxOutages
    /\ redis_connected' = FALSE
    /\ outages' = outages + 1
    /\ UNCHANGED <<conv, tasks, audit, bus, results, events, pg_connected,
                   gemini_available, consensus_calls, replied>>
    /\ ConversationOnly

RedisConnect ==
    /\ InProgress
    /\ ~redis_connected
    /\ redis_connected' = TRUE
    /\ UNCHANGED <<conv, tasks, audit, bus, results, events, pg_connected,
                   gemini_available, outages, consensus_calls, replied>>
    /\ ConversationOnly

\* PostgresLogger.disconnect / PostgresLogger.connect.
PostgresDisconnect ==
    /\ InProgress
    /\ pg_connected /\ outages < MaxOutages
    /\ pg_connected' = FALSE
    /\ outages' = outages + 1
    /\ UNCHANGED <<conv, tasks, audit, bus, results, events, redis_connected,
                   gemini_available, consensus_calls, replied>>
    /\ ConversationOnly

PostgresConnect ==
    /\ InProgress
    /\ ~pg_connected
    /\ pg_connected' = TRUE
    /\ UNCHANGED <<conv, tasks, audit, bus, results, events, redis_connected,
                   gemini_available, outages, consensus_calls, replied>>
    /\ ConversationOnly

\* The Gemini API starts to fail (call_gemini raises) and recovers.
GeminiFails ==
    /\ InProgress
    /\ gemini_available /\ outages < MaxOutages
    /\ gemini_available' = FALSE
    /\ outages' = outages + 1
    /\ UNCHANGED <<conv, tasks, audit, bus, results, events, redis_connected,
                   pg_connected, consensus_calls, replied>>
    /\ ConversationOnly

GeminiRecovers ==
    /\ InProgress
    /\ ~gemini_available
    /\ gemini_available' = TRUE
    /\ UNCHANGED <<conv, tasks, audit, bus, results, events, redis_connected,
                   pg_connected, outages, consensus_calls, replied>>
    /\ ConversationOnly

NextConversation ==
    \/ \E hub \in BOOLEAN : \E n \in 0..MaxTurns : StartConversation(hub, n)
    \/ \E ok \in BOOLEAN : Publish(ok)
    \/ LogUserMessage
    \/ SendUserMessage
    \/ LaunchAgents
    \/ \E a \in Agents : \E ok \in BOOLEAN : AgentPublishes(a, ok)
    \/ \E a \in Agents : \E ok \in BOOLEAN : AgentReadsHistory(a, ok)
    \/ \E a \in Agents : AgentGenerates(a)
    \/ CollectResponses
    \/ LogResponse
    \/ SendResponse
    \/ \E ok \in BOOLEAN : ReachConsensus(ok)
    \/ LogConsensus
    \/ LogConversationResult
    \/ CancelConversation
    \/ RedisDisconnect
    \/ RedisConnect
    \/ PostgresDisconnect
    \/ PostgresConnect
    \/ GeminiFails
    \/ GeminiRecovers

\* The steps of a conversation with the clock observed: the timestamp of a
\* Message is the number of Messages constructed in the turn so far, the
\* clock advancing from one construction to the next.
NextTimestamps ==
    \/ \E hub \in BOOLEAN : \E n \in 0..MaxTurns : StartConversation(hub, n)
    \/ \E ok \in BOOLEAN : Publish(ok)
    \/ LogUserMessage
    \/ SendUserMessage
    \/ LaunchAgents
    \/ \E a \in Agents : \E ok \in BOOLEAN : AgentPublishes(a, ok)
    \/ \E a \in Agents : \E ok \in BOOLEAN : AgentReadsHistory(a, ok)
    \/ \E a \in Agents :
          get_agent_response(a, 1 + Cardinality({b \in Agents : tasks[b].timestamp > 0}))
    \/ CollectResponses
    \/ LogResponse
    \/ SendResponse
    \/ \E ok \in BOOLEAN : ReachConsensus(ok)
    \/ LogConsensus
    \/ LogConversationResult
    \/ CancelConversation
    \/ RedisDisconnect
    \/ RedisConnect
    \/ PostgresDisconnect
    \/ PostgresConnect
    \/ GeminiFails
    \/ GeminiRecovers

(***************************************************************************)
(* ConsensusEngine, and the consensus input built by run_conversation      *)
(***************************************************************************)

\* The input of one call has at most MaxMessages messages and MaxChars
\* characters in all (the worked example apart).
MaxMessages == 2
MaxChars == 5

\* A text is a sequence of characters.  Chars lists the characters of the
\* model in the order of their code points (Python compares str by code point).
Chars == <<"\n", " ", ".", "B", "P", "R", "a", "c", "d", "e", "i", "k",
           "l", "m", "o", "r", "s", "u", "w">>

\* The characters the texts of the model are built from.
InputChars == {"\n", " ", "a"}

ord(c) == CHOOSE i \in 1..Len(Chars) : Chars[i] = c

\* str.strip() strips whitespace; of the characters above: space and newline.
IsSpace(c) == c \in {" ", "\n"}

RECURSIVE lstrip(_)
lstrip(s) ==
    IF s = <<>> THEN s
    ELSE IF IsSpace(Head(s)) THEN lstrip(Tail(s)) ELSE s

RECURSIVE rstrip(_)
rstrip(s) ==
    IF s = <<>> THEN s
    ELSE IF IsSpace(s[Len(s)]) THEN rstrip(SubSeq(s, 1, Len(s) - 1)) ELSE s

\* str.strip()
strip(s) == rstrip(lstrip(s))

RECURSIVE UpToNewline(_)
\* s.split('\n')[0]: the text before the first newline.
UpToNewline(s) ==
    IF s = <<>> \/ Head(s) = "\n" THEN <<>>
    ELSE <<Head(s)>> \o UpToNewline(Tail(s))

\* first_line = msg.content.strip().split('\n')[0]
first_line(content) == UpToNewline(strip(content))

RECURSIVE StrLess(_, _)
\* a < b for two str.
StrLess(a, b) ==
    IF b = <<>> THEN FALSE
    ELSE IF a = <<>> THEN TRUE
    ELSE IF Head(a) = Head(b) THEN StrLess(Tail(a), Tail(b))
    ELSE ord(Head(a)) < ord(Head(b))

\* The sort key (-len(content), content) of the tie-break: a sorts before b.
KeyLess(a, b) ==
    \/ Len(a) > Len(b)
    \/ Len(a) = Len(b) /\ StrLess(a, b)

\* vote_counts[option]: Counter(first_lines)
vote_counts(messages, option) ==
    Cardinality({i \in 1..Len(messages) : first_line(messages[i].content) = option})

first_lines(messages) ==
    {first_line(messages[i].content) : i \in 1..Len(messages)}

\* max_votes = max(vote_counts.values())
max_votes(messages) ==
    CHOOSE n \in 1..Len(messages) :
        /\ \E o \in first_lines(messages) : vote_counts(messages, o) = n
        /\ \A o \in first_lines(messages) : vote_counts(messages, o) <= n

top_options(messages) ==
    {o \in first_lines(messages) : vote_counts(messages, o) = max_votes(messages)}

\* message_map[option][0]: the first message of the input with that first line.
FirstWith(messages, option) ==
    LET i == CHOOSE i \in 1..Len(messages) :
                 /\ first_line(messages[i].content) = option
                 /\ \A j \in 1..(i - 1) : first_line(messages[j].content) # option
    IN  messages[i].content

\* tie_breaker_candidates.sort(key=lambda x: (-x[0], x[1])), and its first.
TieBreak(messages) ==
    LET candidates == {messages[i].content : i \in
                          {j \in 1..Len(messages) :
                              first_line(messages[j].content) \in top_options(messages)}}
    IN  CHOOSE c \in candidates : \A d \in candidates : d = c \/ KeyLess(c, d)

\* models.ConsensusResult; confidence_score in tenths, None when not given.
ConsensusResult(final_answer, winning_votes, total_votes, method) ==
    [final_answer |-> final_answer, winning_votes |-> winning_votes,
     total_votes |-> total_votes, consensus_method |-> method,
     confidence_score |-> None]

\* The "if len(messages) == 1" that opens each of the three algorithms.
single_response(messages) ==
    ConsensusResult(messages[1].content, 1, 1, "single_response")

\* ConsensusEngine._majority_vote_consensus
majority_vote_consensus(messages) ==
    IF Len(messages) = 1 THEN single_response(messages)
    ELSE ConsensusResult(
            IF Cardinality(top_options(messages)) = 1
            THEN FirstWith(messages, CHOOSE o \in top_options(messages) : TRUE)
            ELSE TieBreak(messages),
            max_votes(messages), Len(messages), "majority_vote_with_tiebreak")

\* settings.consensus_algorithm: "synthesis" (default), "semantic" or
\* "majority_vote".
Algorithms == {"majority_vote", "semantic", "synthesis"}

\* What the local language model may answer when it fuses the summaries.
FusedTexts == {<<>>, <<"a">>}

NoConsensusResult == [algorithm |-> "none", raised |-> "none",
             value |-> ConsensusResult(<<>>, 0, 0, "none")]

Returned(algorithm, value) ==
    [algorithm |-> algorithm, raised |-> "none", value |-> value]

RaisedBy(algorithm, error) ==
    [algorithm |-> algorithm, raised |-> error,
     value |-> ConsensusResult(<<>>, 0, 0, "none")]

RECURSIVE TotalChars(_)
TotalChars(messages) ==
    IF messages = <<>> THEN 0
    ELSE Len(Head(messages).content) + TotalChars(Tail(messages))

\* The worked example: prompt "Pick a color.", replies "Red.", "Red is warm."
\* and "Blue.".
PickAColor ==
    <<[sender |-> "user",
       content |-> <<"P","i","c","k"," ","a"," ","c","o","l","o","r",".">>],
      [sender |-> "agent_0", content |-> <<"R","e","d",".">>],
      [sender |-> "agent_1",
       content |-> <<"R","e","d"," ","i","s"," ","w","a","r","m",".">>],
      [sender |-> "agent_2", content |-> <<"B","l","u","e",".">>]>>

\* The longest list of messages given to a call.
MaxInputLen == IF MaxMessages > Len(PickAColor) THEN MaxMessages ELSE Len(PickAColor)

\* consensus_messages = [initial_msg] + final_turn_messages in a run, or a
\* list of the caller's in a direct call of reach_consensus: the list starts
\* with the user's prompt in a run and empty in a direct call.
BeginInput(via) ==
    /\ cs_pc = "idle"
    /\ cs_pc' = "input"
    /\ cs_via' = via
    /\ consensus_messages' =
          IF via = "run" THEN <<[sender |-> "user", content |-> <<>>]>> ELSE <<>>
    /\ UNCHANGED consensus_result
    /\ ConsensusOnly

\* The next message of the list: the reply of the next agent.
NewMessage ==
    /\ cs_pc = "input"
    /\ Len(consensus_messages) < MaxMessages
    /\ consensus_messages' =
          Append(consensus_messages,
                 [sender |-> AgentNames[IF cs_via = "run"
                                        THEN Len(consensus_messages)
                                        ELSE Len(consensus_messages) + 1],
                  content |-> <<>>])
    /\ UNCHANGED <<cs_pc, cs_via, consensus_result>>
    /\ ConsensusOnly

\* One more character of the content of the last message.
AppendChar(c) ==
    /\ cs_pc = "input"
    /\ consensus_messages # <<>>
    /\ TotalChars(consensus_messages) < MaxChars
    /\ consensus_messages' =
          [consensus_messages EXCEPT ![Len(consensus_messages)].content = Append(@, c)]
    /\ UNCHANGED <<cs_pc, cs_via, consensus_result>>
    /\ ConsensusOnly

\* The input of the worked example, as run_conversation builds it.
LoadExample ==
    /\ cs_pc = "idle"
    /\ cs_pc' = "input"
    /\ cs_via' = "run"
    /\ consensus_messages' = PickAColor
    /\ UNCHANGED consensus_result
    /\ ConsensusOnly

\* reach_consensus with algorithm "majority_vote".
CallMajorityVote ==
    /\ cs_pc = "input" /\ consensus_messages # <<>>
    /\ cs_pc' = "done"
    /\ consensus_result' =
          Returned("majority_vote", majority_vote_consensus(consensus_messages))
    /\ UNCHANGED <<cs_via, consensus_messages>>
    /\ ConsensusOnly

\* reach_consensus with algorithm "semantic": with two or more messages the
\* winner is the message closest to the centre of the largest cluster of the
\* embeddings, here message i of a cluster of n messages.
CallSemantic(i, n) ==
    /\ cs_pc = "input" /\ consensus_messages # <<>>
    /\ i \in 1..Len(consensus_messages) /\ n \in 1..Len(consensus_messages)
    /\ cs_pc' = "done"
    /\ consensus_result' =
          Returned("semantic",
                   IF Len(consensus_messages) = 1
                   THEN single_response(consensus_messages)
                   ELSE ConsensusResult(consensus_messages[i].content, n,
                                        Len(consensus_messages), "semantic_clustering"))
    /\ UNCHANGED <<cs_via, consensus_messages>>
    /\ ConsensusOnly

\* The messages of the agents: sender.startswith("agent_").
agent_responses(messages) == SelectSeq(messages, LAMBDA m : m.sender # "user")

\* reach_consensus with algorithm "synthesis": with two or more messages the
\* local model summarises the replies of the agents and fuses the summaries.
CallSynthesis(fused) ==
    /\ cs_pc = "input" /\ consensus_messages # <<>>
    /\ cs_pc' = "done"
    /\ consensus_result' =
          Returned("synthesis",
                   IF Len(consensus_messages) = 1
                   THEN single_response(consensus_messages)
                   ELSE [ConsensusResult(fused, Len(agent_responses(consensus_messages)),
                                         Len(consensus_messages),
                                         "local_synthesis_qwen3-0.6b")
                            EXCEPT !.confidence_score = 9])
    /\ UNCHANGED <<cs_via, consensus_messages>>
    /\ ConsensusOnly

\* reach_consensus raises: ValueError for an empty list; with two or more
\* messages, whatever the local model raises in "semantic" and "synthesis".
CallRaises(algorithm) ==
    /\ cs_pc = "input"
    /\ \/ consensus_messages = <<>>
       \/ Len(consensus_messages) >= 2 /\ algorithm # "majority_vote"
    /\ cs_pc' = "done"
    /\ consensus_result' =
          RaisedBy(algorithm,
                   IF consensus_messages = <<>> THEN "ValueError" ELSE "Exception")
    /\ UNCHANGED <<cs_via, consensus_messages>>
    /\ ConsensusOnly

NextConsensus ==
    \/ \E via \in {"run", "direct"} : BeginInput(via)
    \/ NewMessage
    \/ \E c \in InputChars : AppendChar(c)
    \/ LoadExample
    \/ CallMajorityVote
    \/ \E i, n \in 1..MaxInputLen : CallSemantic(i, n)
    \/ \E fused \in FusedTexts : CallSynthesis(fused)
    \/ \E algorithm \in Algorithms : CallRaises(algorithm)

(***************************************************************************)
(* The WebSocket manager (src/app/websocket.py)                            *)
(*                                                                         *)
(* The subscribers of one conversation and the calls of                    *)
(* send_to_conversation made by the conversation task and by the agent     *)
(* tasks that run in parallel.  A call iterates over the live set          *)
(* active_connections[conversation_id] and awaits send_text for each       *)
(* WebSocket; the other tasks run while it is suspended in that await.     *)
(* The iterator of a Python set remembers the size of the set and raises   *)
(* RuntimeError("Set changed size during iteration") on its next step when *)
(* the size is another one.  The iteration visits the WebSockets in the    *)
(* order of their slots, modelled as the order of their numbers.           *)
(***************************************************************************)

NumSockets == 2
NumPublishers == 2
MaxEvents == 2

Sockets == 1..NumSockets
Publishers == 1..NumPublishers

IdlePublish == [pc |-> "idle", event |-> 0, used |-> 0, pos |-> 0,
                disconnected_websockets |-> {}]

\* The WebSocket the iterator yields after position pos, 0 when exhausted.
NextSocket(set, pos) ==
    IF \E w \in set : w > pos
    THEN CHOOSE w \in set : w > pos /\ \A v \in set : v > pos => w <= v
    ELSE 0

\* disconnect deletes the set of a conversation that has no subscriber left,
\* and connect makes a new one: an iteration under way goes on over the old
\* set, whose size stays 0, so its next step raises (used = None equals no size).
Orphaned(pubs, set) ==
    IF set # {} THEN pubs
    ELSE [p \in Publishers |->
            IF pubs[p].pc = "sending" THEN [pubs[p] EXCEPT !.used = None]
            ELSE pubs[p]]

\* websocket.send_text(message_json) is called: the text is written to the
\* connection, and the call is suspended until the write is done.
send_text(p, e, w, used, failed) ==
    /\ hub_pub' = [hub_pub EXCEPT ![p] =
            [pc |-> "sending", event |-> e, used |-> used, pos |-> w,
             disconnected_websockets |-> failed]]
    /\ delivered' = IF w \in ws_broken THEN delivered
                    ELSE [delivered EXCEPT ![w] = Append(@, e)]
    /\ UNCHANGED active_connections

\* WebSocketConnectionManager.connect: accept, then add to the set.
connect(w) ==
    /\ w \in ws_new
    /\ ws_new' = ws_new \ {w}
    /\ active_connections' = active_connections \cup {w}
    /\ attached_at' = [attached_at EXCEPT ![w] = Len(published)]
    /\ UNCHANGED <<ws_broken, hub_pub, published, delivered>>
    /\ HubOnly

\* WebSocketConnectionManager.disconnect, called by the endpoint of the
\* WebSocket when its client has gone.
disconnect(w) ==
    /\ w \in active_connections
    /\ active_connections' = active_connections \ {w}
    /\ hub_pub' = Orphaned(hub_pub, active_connections')
    /\ UNCHANGED <<ws_new, ws_broken, published, delivered, attached_at>>
    /\ HubOnly

\* The connection of a subscriber breaks: send_text raises from now on.
SocketBreaks(w) ==
    /\ w \in active_connections \ ws_broken
    /\ ws_broken' = ws_broken \cup {w}
    /\ UNCHANGED <<active_connections, ws_new, hub_pub, published, delivered,
                   attached_at>>
    /\ HubOnly

\* send_to_conversation is called: return when the conversation has no
\* subscriber, else start the iteration and send to the first WebSocket.
send_to_conversation(p) ==
    /\ hub_pub[p].pc \in {"idle", "returned", "raised"}
    /\ Len(published) < MaxEvents
    /\ published' = Append(published, Len(published) + 1)
    /\ IF active_connections = {}
       THEN /\ hub_pub' = [hub_pub EXCEPT ![p] =
                    [IdlePublish EXCEPT !.pc = "returned",
                                        !.event = Len(published) + 1]]
            /\ UNCHANGED <<active_connections, delivered>>
       ELSE send_text(p, Len(published) + 1, NextSocket(active_connections, 0),
                      Cardinality(active_connections), {})
    /\ UNCHANGED <<ws_new, ws_broken, attached_at>>
    /\ HubOnly

\* The rest of the loop of send_to_conversation, as the source writes it: the
\* next step of the iterator raises when the set has another size; else the
\* next WebSocket is sent to; and after the last one the WebSockets whose
\* send_text raised are disconnected.
ContinueIteration(p, failed) ==
    LET pub == hub_pub[p]
        nxt == NextSocket(active_connections, pub.pos)
    IN  IF Cardinality(active_connections) # pub.used
        THEN /\ hub_pub' = [hub_pub EXCEPT ![p] =
                    [IdlePublish EXCEPT !.pc = "raised", !.event = pub.event,
                                        !.disconnected_websockets = failed]]
             /\ UNCHANGED <<active_connections, delivered>>
        ELSE IF nxt # 0
        THEN send_text(p, pub.event, nxt, pub.used, failed)
        ELSE /\ active_connections' = active_connections \ failed
             /\ hub_pub' = Orphaned([hub_pub EXCEPT ![p] =
                    [IdlePublish EXCEPT !.pc = "returned", !.event = pub.event,
                                        !.disconnected_websockets = failed]],
                    active_connections')
             /\ UNCHANGED delivered

\* The await of send_text ends, by returning or by raising, and the loop goes on.
SendTextEnds(p) ==
    /\ hub_pub[p].pc = "sending"
    /\ ContinueIteration(p,
            IF hub_pub[p].pos \in ws_broken
            THEN hub_pub[p].disconnected_websockets \cup {hub_pub[p].pos}
            ELSE hub_pub[p].disconnected_websockets)
    /\ UNCHANGED <<ws_new, ws_broken, published, attached_at>>
    /\ HubOnly

NextHub ==
    \/ \E w \in Sockets : connect(w)
    \/ \E w \in Sockets : disconnect(w)
    \/ \E w \in Sockets : SocketBreaks(w)
    \/ \E p \in Publishers : send_to_conversation(p)
    \/ \E p \in Publishers : SendTextEnds(p)

(***************************************************************************)
(* RedisBus.subscribe_to_conversation and _consume_messages                *)
(*                                                                         *)
(* The consumer group is created at id "0", so every entry of the stream   *)
(* is after its last-delivered-id at first.  xreadgroup with the id ">"    *)
(* returns entries that were never delivered to a consumer of the group,   *)
(* moves the last-delivered-id past them and puts them on the pending      *)
(* entries list; xack takes an entry off that list.                        *)
(***************************************************************************)

MaxStream == 4
MaxHandlerFailures == 2
XREADGROUP_COUNT == 10

Entries == 1..MaxStream

\* send_message appends an entry to the stream.
AppendEntry ==
    /\ stream_len < MaxStream
    /\ stream_len' = stream_len + 1
    /\ UNCHANGED <<last_delivered_id, pending, sub_pc, sub_batch, handler_calls,
                   handled, acked, handler_failures>>
    /\ SubscribeOnly

\* What xreadgroup(group, consumer, {stream: ">"}, count=10) returns.
NewEntries ==
    (last_delivered_id + 1)..Min(stream_len, last_delivered_id + XREADGROUP_COUNT)

\* result = await self.redis_client.xreadgroup(...) with a result.
xreadgroup ==
    /\ sub_pc = "read"
    /\ NewEntries # {}
    /\ sub_batch' = [i \in 1..Cardinality(NewEntries) |-> last_delivered_id + i]
    /\ pending' = pending \cup NewEntries
    /\ last_delivered_id' = last_delivered_id + Cardinality(NewEntries)
    /\ sub_pc' = "handle"
    /\ UNCHANGED <<stream_len, handler_calls, handled, acked, handler_failures>>
    /\ SubscribeOnly

\* The loop over the entries of the result goes to its next entry, or the
\* while loop goes to its next xreadgroup.
NextEntry(batch) == IF Len(batch) > 1 THEN "handle" ELSE "read"

\* await message_handler(message): it returns (ok), or it raises and the
\* except clause logs the error and continues with the next entry.
HandleMessage(ok) ==
    /\ sub_pc = "handle"
    /\ handler_calls' = [handler_calls EXCEPT ![Head(sub_batch)] = @ + 1]
    /\ IF ok
       THEN /\ handled' = handled \cup {Head(sub_batch)}
            /\ sub_pc' = "ack"
            /\ UNCHANGED <<sub_batch, handler_failures>>
       ELSE /\ handler_failures < MaxHandlerFailures
            /\ handler_failures' = handler_failures + 1
            /\ sub_pc' = NextEntry(sub_batch)
            /\ sub_batch' = Tail(sub_batch)
            /\ UNCHANGED handled
    /\ UNCHANGED <<stream_len, last_delivered_id, pending, acked>>
    /\ SubscribeOnly

\* await self.redis_client.xack(stream, group_name, message_id)
xack ==
    /\ sub_pc = "ack"
    /\ pending' = pending \ {Head(sub_batch)}
    /\ acked' = acked \cup {Head(sub_batch)}
    /\ sub_pc' = NextEntry(sub_batch)
    /\ sub_batch' = Tail(sub_batch)
    /\ UNCHANGED <<stream_len, last_delivered_id, handler_calls, handled,
                   handler_failures>>
    /\ SubscribeOnly

NextSubscribe ==
    \/ AppendEntry
    \/ xreadgroup
    \/ \E ok \in BOOLEAN : HandleMessage(ok)
    \/ xack

(***************************************************************************)
(* API keys and permissions (SecurityManager, and the admin endpoints of   *)
(* main.py)                                                                *)
(***************************************************************************)

NumKeys == 1
MaxUsage == 2

API_KEY_PREFIX == "pa_"

\* The key values that are presented: with the prefix of the API keys or not.
KeyValues == [prefix : {API_KEY_PREFIX, "sk_"}, token : 1..NumKeys]

\* The permission strings carried by the keys, and the sets of them.
Permissions == {"read", "admin", "admin:all"}

\* hashlib.sha256(key.encode()).hexdigest(): one digest per key value.
hash_key(key) == <<"sha256", key.prefix, key.token>>

NoAuth == [op |-> "none", key |-> <<>>, accepted |-> FALSE, permissions |-> {}]

\* create_api_key(name, permissions, key_value): the APIKey is stored under
\* the hash of the key value, in the place of the one stored there before.
create_api_key(key, permissions) ==
    /\ api_keys' = [h \in DOMAIN api_keys \cup {hash_key(key)} |->
                      IF h = hash_key(key)
                      THEN [permissions |-> permissions, is_active |-> TRUE,
                            usage_count |-> 0]
                      ELSE api_keys[h]]
    /\ auth_last' = [op |-> "create", key |-> key, accepted |-> TRUE,
                     permissions |-> permissions]
    /\ UNCHANGED revoked
    /\ AuthOnly

\* revoke_api_key(key)
revoke_api_key(key) ==
    /\ IF hash_key(key) \in DOMAIN api_keys
       THEN /\ api_keys' = [api_keys EXCEPT ![hash_key(key)].is_active = FALSE]
            /\ revoked' = revoked \cup {key}
       ELSE UNCHANGED <<api_keys, revoked>>
    /\ auth_last' = [op |-> "revoke", key |-> key,
                     accepted |-> hash_key(key) \in DOMAIN api_keys,
                     permissions |-> {}]
    /\ AuthOnly

\* validate_api_key(key) returns an APIKey (Accepts) or None.
Accepts(key) ==
    /\ key.prefix = API_KEY_PREFIX
    /\ hash_key(key) \in DOMAIN api_keys
    /\ api_keys[hash_key(key)].is_active

\* The keys after validate_api_key(key): an accepted key is counted.
Validated(key) ==
    IF Accepts(key)
    THEN [api_keys EXCEPT ![hash_key(key)].usage_count = @ + 1]
    ELSE api_keys

validate_api_key(key) ==
    /\ Accepts(key) => api_keys[hash_key(key)].usage_count < MaxUsage
    /\ api_keys' = Validated(key)
    /\ auth_last' = [op |-> "validate", key |-> key, accepted |-> Accepts(key),
                     permissions |-> {}]
    /\ UNCHANGED revoked
    /\ AuthOnly

\* check_permission(api_key, required_permission)
check_permission(api_key, required_permission) ==
    IF ~api_key.is_active THEN FALSE
    ELSE IF "admin:all" \in api_key.permissions THEN TRUE
    ELSE required_permission \in api_key.permissions

\* check_permission is called on the APIKey stored for the key.
CheckPermission(key, required_permission) ==
    /\ hash_key(key) \in DOMAIN api_keys
    /\ auth_last' = [op |-> "check_permission", key |-> key,
                     accepted |-> check_permission(api_keys[hash_key(key)],
                                                   required_permission),
                     permissions |-> {required_permission}]
    /\ UNCHANGED <<api_keys, revoked>>
    /\ AuthOnly

\* POST /admin/cleanup and GET /admin/export with the key as credential:
\* verify_api_key validates the key, and the endpoint then looks for
\* Permission.ADMIN.value among the permissions of the key.
AdminOperation(key) ==
    /\ Accepts(key)
    /\ api_keys[hash_key(key)].usage_count < MaxUsage
    /\ api_keys' = Validated(key)
    /\ auth_last' = [op |-> "admin", key |-> key,
                     accepted |-> "admin" \in api_keys[hash_key(key)].permissions,
                     permissions |-> api_keys[hash_key(key)].permissions]
    /\ UNCHANGED revoked
    /\ AuthOnly

NextAuth ==
    \/ \E key \in KeyValues : \E ps \in SUBSET Permissions : create_api_key(key, ps)
    \/ \E key \in KeyValues : revoke_api_key(key)
    \/ \E key \in KeyValues : validate_api_key(key)
    \/ \E key \in KeyValues : \E rp \in Permissions : CheckPermission(key, rp)
    \/ \E key \in KeyValues : AdminOperation(key)

(***************************************************************************)
(* Orchestrator: initialize, cleanup, and the runs of run_conversation     *)
(* under the conversation ids given by the callers                         *)
(***************************************************************************)

NumInitializers == 2
MaxInitCalls == 3
MaxCleanups == 1
NumRuns == 2
NumConversations == 1

Initializers == 1..NumInitializers
Runs == 1..NumRuns
ConversationIds == 1..NumConversations

\* Message(id=str(uuid4()), conversation_id=..., sender=..., turn=...): the
\* uuid is written as the run that made the message, its kind and its index.
MessageRecord(r, kind, i, sender, turn) ==
    [id |-> <<r, kind, i>>, conversation_id |-> runs[r].conversation_id,
     sender |-> sender, turn |-> turn]

\* await orchestrator.initialize(), up to its first suspension point: the
\* flag is tested, and redis_bus.connect() is called and awaited.
initialize(c) ==
    /\ init_pc[c] = "idle"
    /\ init_calls < MaxInitCalls
    /\ init_calls' = init_calls + 1
    /\ IF initialized
       THEN UNCHANGED <<init_pc, connect_calls>>
       ELSE /\ init_pc' = [init_pc EXCEPT ![c] = "redis"]
            /\ connect_calls' = [connect_calls EXCEPT !.redis = @ + 1]
    /\ UNCHANGED <<initialized, agents, initialisations, connected, cleanups,
                   runs, message_rows, conversation_rows>>
    /\ OrchestratorOnly

\* initialize goes on after an await: redis_bus.connect() has returned and
\* postgres_logger.connect() is called, or that one has returned, the agents
\* of settings.get_agent_configs() are appended to self.agents and the flag
\* is set.
InitializeResumes(c) ==
    /\ init_pc[c] \in {"redis", "postgres"}
    /\ IF init_pc[c] = "redis"
       THEN /\ connected' = [connected EXCEPT !.redis = TRUE]
            /\ connect_calls' = [connect_calls EXCEPT !.postgres = @ + 1]
            /\ init_pc' = [init_pc EXCEPT ![c] = "postgres"]
            /\ UNCHANGED <<initialized, agents, initialisations>>
       ELSE /\ connected' = [connected EXCEPT !.postgres = TRUE]
            /\ agents' = agents \o [i \in 1..NUM_AGENTS |-> i]
            /\ initialized' = TRUE
            /\ initialisations' = IF initialized THEN initialisations
                                  ELSE initialisations + 1
            /\ init_pc' = [init_pc EXCEPT ![c] = "idle"]
            /\ UNCHANGED connect_calls
    /\ UNCHANGED <<init_calls, cleanups, runs, message_rows, conversation_rows>>
    /\ OrchestratorOnly

\* await orchestrator.cleanup(): both connections are closed and the flag is
\* cleared; self.agents is left as it is.
cleanup ==
    /\ cleanups < MaxCleanups
    /\ cleanups' = cleanups + 1
    /\ connected' = [redis |-> FALSE, postgres |-> FALSE]
    /\ initialized' = FALSE
    /\ UNCHANGED <<agents, init_pc, init_calls, connect_calls, initialisations,
                   runs, message_rows, conversation_rows>>
    /\ OrchestratorOnly

\* run_conversation(prompt, conversation_id, n_turns = 1) is called: it
\* raises when the orchestrator is not initialized, and tests nothing else.
run_conversation(r, id) ==
    /\ runs[r].pc = "idle"
    /\ runs' = [runs EXCEPT ![r] =
                  [pc |-> IF initialized THEN "log_user" ELSE "raised",
                   conversation_id |-> id]]
    /\ UNCHANGED <<initialized, agents, init_pc, init_calls, connect_calls,
                   initialisations, connected, cleanups, message_rows,
                   conversation_rows>>
    /\ OrchestratorOnly

\* What the run writes at its next stage: the user message, the replies of
\* its one turn (one per element of self.agents), the consensus message.
StageRows(r) ==
    CASE runs[r].pc = "log_user" -> {MessageRecord(r, "user", 0, "user", 0)}
      [] runs[r].pc = "turn" ->
           {MessageRecord(r, "agent", i, AgentNames[agents[i]], 1) :
              i \in 1..Len(agents)}
      [] runs[r].pc = "consensus" ->
           {MessageRecord(r, "consensus", 0, "consensus", 2)}
      [] OTHER -> {}

\* The run goes on by one stage.  log_message raises when the logger is not
\* connected (the bus is connected whenever the logger is: initialize
\* connects it first and cleanup closes both), and log_conversation_result
\* raises when the
\* conversations table holds a row with this primary key; whatever is raised
\* leaves run_conversation.
RunStage(r) ==
    /\ runs[r].pc \in {"log_user", "turn", "consensus", "log_result"}
    /\ IF ~connected.postgres
       THEN /\ runs' = [runs EXCEPT ![r].pc = "raised"]
            /\ UNCHANGED <<message_rows, conversation_rows>>
       ELSE IF runs[r].pc = "log_result"
       THEN IF runs[r].conversation_id \in conversation_rows
            THEN /\ runs' = [runs EXCEPT ![r].pc = "raised"]
                 /\ UNCHANGED <<message_rows, conversation_rows>>
            ELSE /\ conversation_rows' =
                      conversation_rows \cup {runs[r].conversation_id}
                 /\ runs' = [runs EXCEPT ![r].pc = "returned"]
                 /\ UNCHANGED message_rows
       ELSE /\ message_rows' = message_rows \cup StageRows(r)
            /\ runs' = [runs EXCEPT ![r].pc =
                          CASE @ = "log_user" -> "turn"
                            [] @ = "turn" -> "consensus"
                            [] @ = "consensus" -> "log_result"]
            /\ UNCHANGED conversation_rows
    /\ UNCHANGED <<initialized, agents, init_pc, init_calls, connect_calls,
                   initialisations, connected, cleanups>>
    /\ OrchestratorOnly

NextOrchestrator ==
    \/ \E c \in Initializers : initialize(c)
    \/ \E c \in Initializers : InitializeResumes(c)
    \/ cleanup
    \/ \E r \in Runs : \E id \in ConversationIds : run_conversation(r, id)
    \/ \E r \in Runs : RunStage(r)

(***************************************************************************)
(* RedisBus.cleanup_old_conversations  (src/app/memory/redis_bus.py)       *)
(*                                                                         *)
(* The streams chat:*, the wall clock that stamps their entries, the clock *)
(* of the event loop that cleanup reads, and one call of cleanup at a time *)
(* with the sends that run while it is suspended.  Times are in seconds    *)
(* and advance by hours.                                                   *)
(***************************************************************************)

NumStreams == 2
MaxWallHours == 3
MaxAgeHours == 1
MaxBusCleanups == 2

SECONDS_PER_HOUR == 3600
MS_PER_SECOND == 1000

NoCleanup ==
    [pc |-> "idle", calls |-> 0, current_time |-> 0, max_age_seconds |-> 0,
     todo |-> {}, stream |-> 0, cleaned_count |-> 0,
     called_at |-> 0, before |-> <<>>, deleted |-> {}]

\* One hour passes.  The clock of the event loop (time.monotonic) counts from
\* a reference point of its own: the wall clock has run for some hours before
\* that point (not booted), and the two advance together after it.
ClockTick(booted) ==
    /\ wall_time < MaxWallHours * SECONDS_PER_HOUR
    /\ wall_time' = wall_time + SECONDS_PER_HOUR
    /\ IF booted
       THEN loop_time' = loop_time + SECONDS_PER_HOUR
       ELSE /\ loop_time = 0 /\ cleanup_call.pc = "idle"
            /\ \A s \in 1..NumStreams : streams[s] = None
            /\ UNCHANGED loop_time
    /\ UNCHANGED <<streams, cleanup_call>>
    /\ BusOnly

\* send_message on the stream s: xadd gives the entry the id
\* "<milliseconds of the wall clock>-<sequence>".
SendToStream(s) ==
    /\ streams' = [streams EXCEPT ![s] = wall_time * MS_PER_SECOND]
    /\ streams'[s] # streams[s]
    /\ UNCHANGED <<wall_time, loop_time, cleanup_call>>
    /\ BusOnly

\* cleanup_old_conversations(max_age_hours) up to "await keys('chat:*')".
cleanup_old_conversations(max_age_hours) ==
    /\ cleanup_call.pc \in {"idle", "done"}
    /\ cleanup_call.calls < MaxBusCleanups
    /\ cleanup_call' =
          [pc |-> "scan", calls |-> cleanup_call.calls + 1,
           current_time |-> loop_time,
           max_age_seconds |-> max_age_hours * SECONDS_PER_HOUR,
           todo |-> {s \in 1..NumStreams : streams[s] # None},
           stream |-> 0, cleaned_count |-> 0,
           called_at |-> wall_time, before |-> streams, deleted |-> {}]
    /\ UNCHANGED <<wall_time, loop_time, streams>>
    /\ BusOnly

\* The next stream of the loop: xrevrange(stream, count=1), the age of its
\* last entry, and the test "age_seconds > max_age_seconds"; or the end of
\* the loop and the return of cleaned_count.
CleanupReadsStream ==
    /\ cleanup_call.pc = "scan"
    /\ IF cleanup_call.todo = {}
       THEN cleanup_call' = [cleanup_call EXCEPT !.pc = "done"]
       ELSE \E s \in cleanup_call.todo :
              LET timestamp_seconds == streams[s] \div MS_PER_SECOND
                  age_seconds == cleanup_call.current_time - timestamp_seconds
              IN  cleanup_call' =
                     [cleanup_call EXCEPT
                        !.todo = @ \ {s},
                        !.stream = s,
                        !.pc = IF streams[s] # None
                                  /\ age_seconds > cleanup_call.max_age_seconds
                               THEN "delete" ELSE "scan"]
    /\ UNCHANGED <<wall_time, loop_time, streams>>
    /\ BusOnly

\* deleted = await self.redis_client.delete(stream)
CleanupDeletesStream ==
    /\ cleanup_call.pc = "delete"
    /\ streams' = [streams EXCEPT ![cleanup_call.stream] = None]
    /\ cleanup_call' =
          [cleanup_call EXCEPT
             !.pc = "scan",
             !.deleted = IF streams[cleanup_call.stream] # None
                         THEN @ \cup {cleanup_call.stream} ELSE @,
             !.cleaned_count = IF streams[cleanup_call.stream] # None
                               THEN @ + 1 ELSE @]
    /\ UNCHANGED <<wall_time, loop_time>>
    /\ BusOnly

NextBus ==
    \/ \E booted \in BOOLEAN : ClockTick(booted)
    \/ \E s \in 1..NumStreams : SendToStream(s)
    \/ \E h \in 0..MaxAgeHours : cleanup_old_conversations(h)
    \/ CleanupReadsStream
    \/ CleanupDeletesStream

(***************************************************************************)
(* Specifications                                                          *)
(***************************************************************************)

\* SecurityManager.__init__, CircuitBreaker.__init__ with idle callers, an
\* initialized Orchestrator before its conversation is run, and for the
\* component of initialize and cleanup Orchestrator.__init__.
Init ==
    /\ rl_now = 0
    /\ rate_limits = <<>>
    /\ rl_result = [i \in Identifiers |-> NoResult]
    /\ rl_seq = [i \in Identifiers |-> 0]
    /\ rl_window = [i \in Identifiers |-> 0]
    /\ rl_admitted = [i \in Identifiers |-> [t \in 0..RlMaxTime |-> 0]]
    /\ cb_now = 0
    /\ breaker = NewCircuitBreaker(0)
    /\ call = [p \in Callers |-> IdleCall]
    /\ cb_calls = 0
    /\ cb_last = [op |-> "none", by |-> 0]
    /\ cb_streak = 0
    /\ cb_probes = 0
    /\ cb_opened = None
    /\ conv = IdleConversation
    /\ tasks = [a \in Agents |-> NoTask]
    /\ audit = <<>>
    /\ bus = <<>>
    /\ results = 0
    /\ events = {}
    /\ redis_connected = TRUE
    /\ pg_connected = TRUE
    /\ gemini_available = TRUE
    /\ outages = 0
    /\ consensus_calls = 0
    /\ replied = [t \in 1..MaxTurns |-> {}]
    /\ cs_pc = "idle"
    /\ cs_via = "none"
    /\ consensus_messages = <<>>
    /\ consensus_result = NoConsensusResult
    /\ active_connections = {}
    /\ ws_new = Sockets
    /\ ws_broken = {}
    /\ hub_pub = [p \in Publishers |-> IdlePublish]
    /\ published = <<>>
    /\ delivered = [w \in Sockets |-> <<>>]
    /\ attached_at = [w \in Sockets |-> 0]
    /\ stream_len = 0
    /\ last_delivered_id = 0
    /\ pending = {}
    /\ sub_pc = "read"
    /\ sub_batch = <<>>
    /\ handler_calls = [m \in Entries |-> 0]
    /\ handled = {}
    /\ acked = {}
    /\ handler_failures = 0
    /\ api_keys = <<>>
    /\ revoked = {}
    /\ auth_last = NoAuth
    /\ initialized = FALSE
    /\ agents = <<>>
    /\ connected = [redis |-> FALSE, postgres |-> FALSE]
    /\ init_pc = [c \in Initializers |-> "idle"]
    /\ init_calls = 0
    /\ cleanups = 0
    /\ connect_calls = [redis |-> 0, postgres |-> 0]
    /\ initialisations = 0
    /\ runs = [r \in Runs |-> [pc |-> "idle", conversation_id |-> 0]]
    /\ message_rows = {}
    /\ conversation_rows = {}
    /\ wall_time = 0
    /\ loop_time = 0
    /\ streams = [s \in 1..NumStreams |-> None]
    /\ cleanup_call = NoCleanup

SpecRateLimit == Init /\ [][NextRateLimit]_vars

SpecBreaker == Init /\ [][NextBreaker]_vars

SpecConversation == Init /\ [][NextConversation]_vars

SpecTimestamps == Init /\ [][NextTimestamps]_vars

SpecConsensus == Init /\ [][NextConsensus]_vars

SpecHub == Init /\ [][NextHub]_vars

SpecAuth == Init /\ [][NextAuth]_vars

SpecOrchestrator == Init /\ [][NextOrchestrator]_vars

SpecBus == Init /\ [][NextBus]_vars

\* The consumer task is scheduled as long as it can take a step, and the
\* handler raises MaxHandlerFailures times at most.
SpecSubscribe ==
    /\ Init /\ [][NextSubscribe]_vars
    /\ WF_vars(xreadgroup)
    /\ WF_vars(\E ok \in BOOLEAN : HandleMessage(ok))
    /\ WF_vars(xack)

(***************************************************************************)
(* Properties of the rate limiter                                          *)
(***************************************************************************)

RECURSIVE AdmittedBetween(_, _, _)
\* The requests of identity i admitted at the times a..b.
AdmittedBetween(i, a, b) ==
    IF a > b \/ a > RlMaxTime THEN 0
    ELSE rl_admitted[i][a] + AdmittedBetween(i, a + 1, b)

C2_BurstThenQuotaThenReject ==
    \A i \in Identifiers :
        (i \in DOMAIN rate_limits /\ rl_result[i].kind # "none") =>
            LET k == rl_seq[i]
                res == rl_result[i]
            IN  /\ (k <= RATE_LIMIT_BURST) =>
                        (res.allowed /\ res.kind = "burst")
                /\ (k > RATE_LIMIT_BURST
                        /\ k <= RATE_LIMIT_BURST + RATE_LIMIT_REQUESTS) =>
                        (res.allowed /\ res.kind = "regular")
                /\ (k > RATE_LIMIT_BURST + RATE_LIMIT_REQUESTS) =>
                        /\ ~res.allowed
                        /\ res.retry_after >= 0
                        /\ res.retry_after <= RATE_LIMIT_WINDOW
                        /\ rate_limits[i].requests_made = RATE_LIMIT_REQUESTS
                        /\ rate_limits[i].burst_tokens = 0

\* The bucket has rejected a second request in one window, after its block
\* of the first rejection has run out.
C2_Witness ==
    \E i \in Identifiers :
        /\ i \in DOMAIN rate_limits
        /\ rl_seq[i] = RATE_LIMIT_BURST + RATE_LIMIT_REQUESTS + 2
        /\ ~rl_result[i].allowed
        /\ rl_result[i].retry_after = Min(BLOCK_SECONDS, RATE_LIMIT_WINDOW)

(***************************************************************************)
(* Properties of the circuit breaker and of execute_with_retry             *)
(***************************************************************************)

\* Caller p takes its check_state step in this transition.
Checks(p) == call[p].pc = "attempt" /\ call'[p] # call[p]

\* The timeout of the Open breaker has elapsed at the current time.
TimeoutElapsed == cb_now - cb_opened >= TIMEOUT_SECONDS

C4_ClosedOpensAtThreshold ==
    /\ [](breaker.state = CLOSED =>
            /\ breaker.failure_count = cb_streak
            /\ cb_streak < FAILURE_THRESHOLD)
    /\ [][breaker.state = CLOSED =>
            /\ breaker'.state \in {CLOSED, OPEN}
            /\ (breaker'.state = OPEN) <=>
                  (cb_streak' = cb_streak + 1 /\ cb_streak' = FAILURE_THRESHOLD)
            /\ (breaker'.state = OPEN) =>
                  breaker'.state_change_time = cb_now]_vars

\* The breaker has just opened on its failure_threshold-th failure in a row,
\* after time has passed since it was created.
C4_Witness ==
    /\ breaker.state = OPEN
    /\ cb_last.op = "failure"
    /\ cb_streak = FAILURE_THRESHOLD
    /\ breaker.failure_count = FAILURE_THRESHOLD
    /\ breaker.state_change_time = cb_now
    /\ cb_now > 0

\* C5: an Open breaker stays Open or moves to HalfOpen; a check made once
\* timeout_seconds have elapsed since it opened moves it to HalfOpen and lets
\* that call through to the operation, and a check made earlier does neither.
C5_OpenToHalfOpenAfterTimeout ==
    [][breaker.state = OPEN =>
        /\ breaker'.state \in {OPEN, HALF_OPEN}
        /\ (breaker'.state = HALF_OPEN) =>
              /\ TimeoutElapsed
              /\ \E p \in Callers : Checks(p)
        /\ \A p \in Callers : Checks(p) =>
              IF TimeoutElapsed
              THEN /\ breaker'.state = HALF_OPEN
                   /\ call'[p].pc = "running"
                   /\ call'[p].invoked = call[p].invoked + 1
              ELSE /\ breaker'.state = OPEN
                   /\ call'[p].pc # "running"
                   /\ call'[p].invoked = call[p].invoked]_vars

\* The breaker has just moved to HalfOpen, exactly timeout_seconds after it
\* opened, and the call that was checked is at the operation.
C5_Witness ==
    /\ breaker.state = HALF_OPEN
    /\ cb_last.op = "passed"
    /\ cb_now - cb_opened = TIMEOUT_SECONDS
    /\ breaker.state_change_time = cb_now
    /\ \E p \in Callers : cb_last.by = p /\ call[p].pc = "running"

\* C6: a HalfOpen breaker counts the successes recorded since it entered
\* HalfOpen, and moves to Closed in exactly the step that records the
\* success_threshold-th of them (a failure would have opened it); on closing,
\* failure_count and success_count are 0.
C6_HalfOpenClosesAtThreshold ==
    /\ [](breaker.state = HALF_OPEN =>
            /\ breaker.success_count = cb_probes
            /\ cb_probes < SUCCESS_THRESHOLD)
    /\ [][breaker.state = HALF_OPEN =>
            /\ (breaker'.state = CLOSED) <=>
                  (cb_probes' = cb_probes + 1 /\ cb_probes' = SUCCESS_THRESHOLD)
            /\ (breaker'.state = CLOSED) =>
                  /\ breaker'.failure_count = 0
                  /\ breaker'.success_count = 0
                  /\ cb_last'.op = "success"]_vars

\* The breaker has just closed on its success_threshold-th success in HalfOpen.
C6_Witness ==
    /\ breaker.state = CLOSED
    /\ cb_last.op = "success"
    /\ cb_probes = SUCCESS_THRESHOLD
    /\ cb_opened # None
    /\ breaker.failure_count = 0
    /\ breaker.success_count = 0

\* C7: one call of execute_with_retry invokes the operation at most
\* max_attempts times and sleeps at most max_attempts - 1 times: it backs off
\* only when another attempt follows.
C7_AttemptsAndSleepsBounded ==
    \A p \in Callers :
        call[p].kind = "execute" =>
            /\ call[p].invoked <= MAX_ATTEMPTS
            /\ call[p].slept <= MAX_ATTEMPTS - 1
            /\ call[p].attempt <= MAX_ATTEMPTS - 1
            /\ call[p].pc = "sleeping" => call[p].attempt < MAX_ATTEMPTS - 1

\* A call that used all its attempts: the operation was invoked max_attempts
\* times, with a sleep between each two, and the last error was raised.
C7_Witness ==
    \E p \in Callers :
        /\ call[p].kind = "execute"
        /\ call[p].pc = "done"
        /\ call[p].invoked = MAX_ATTEMPTS
        /\ call[p].slept = MAX_ATTEMPTS - 1
        /\ call[p].result = "Exception"


(***************************************************************************)
(* Orchestrator properties                                                 *)
(***************************************************************************)

\* A task that has been started and has not finished.
Running(t) == t.pc \notin Terminated \cup {"none"}

\* The step starts the agent tasks of a turn.
Launches == \E a \in Agents : tasks'[a].turn # tasks[a].turn

\* The replies of the agents written to a log (audit or bus) for turn t.
AgentMessages(log, t) ==
    SelectSeq(log, LAMBDA m : m.turn = t /\ m.sender \notin {"user", "consensus"})

Senders(log) == {log[i].sender : i \in 1..Len(log)}

RepliedNames(t) == {AgentNames[a] : a \in replied[t]}

\* The loop that writes the replies of turn t has run to its end.
WritesDone(t) ==
    \/ conv.turn > t
    \/ /\ conv.turn = t
       /\ conv.pc \in {"pub_turn_completed", "pub_consensus_started", "consensus",
                       "log_consensus", "pub_consensus_reached", "log_result",
                       "pub_completed", "completed"}

\* The join of the turn returns in this step.
Collects == conv.pc = "gather" /\ conv'.pc \notin {"gather", "cancelled"}

\* C8: turn barrier. The agent tasks of a turn are started only in a state in
\* which no agent task is running (each task of the turn before has returned,
\* raised or been cancelled), the tasks started are those of the next turn,
\* and a running task always belongs to the conversation's current turn.
C8_TurnBarrier ==
    /\ [](\A a \in Agents : Running(tasks[a]) => tasks[a].turn = conv.turn)
    /\ [][Launches =>
            /\ \A b \in Agents : ~Running(tasks[b])
            /\ \A b \in Agents : tasks'[b].turn = tasks[b].turn + 1]_vars

\* Turn 2 is running after every task of turn 1 has finished, one of them by
\* raising.
C8_Witness ==
    /\ conv.pc = "gather" /\ conv.turn = 2
    /\ \E a \in Agents : Running(tasks[a])
    /\ replied[1] # {} /\ replied[1] # Agents

\* C9: a turn in which at least one agent task returned a reply does not fail
\* for want of replies. When the join returns with some reply, the run goes on
\* to write exactly the replies of the tasks that returned, in the order of the
\* agents; a NoAgentResponses error only arises in a turn without any reply;
\* no reply of an agent that failed is ever written; once the writes of turn t
\* are done (no write to the audit store or the bus raised, no cancellation),
\* audit store and bus hold for turn t exactly one message of each agent that
\* replied, and the run goes on to turn t+1 or to consensus; and every turn
\* starts a task for every agent, those that failed the turn before included.
C9_PartialFailureAbsorbed ==
    /\ [](conv.error = "NoAgentResponses" => replied[conv.turn] = {})
    /\ [](\A t \in 1..MaxTurns :
            /\ Senders(AgentMessages(audit, t)) \subseteq RepliedNames(t)
            /\ Senders(AgentMessages(bus, t)) \subseteq RepliedNames(t)
            /\ WritesDone(t) =>
                 /\ replied[t] # {}
                 /\ Senders(AgentMessages(audit, t)) = RepliedNames(t)
                 /\ Len(AgentMessages(audit, t)) = Cardinality(replied[t])
                 /\ Senders(AgentMessages(bus, t)) = RepliedNames(t)
                 /\ Len(AgentMessages(bus, t)) = Cardinality(replied[t]))
    /\ [][/\ (Collects /\ \E a \in Agents : tasks[a].pc = "returned") =>
               /\ conv'.pc = "log_response" /\ conv'.error = "none"
               /\ Senders(conv'.valid) = RepliedNames(conv.turn)
               /\ Len(conv'.valid) = Cardinality(replied[conv.turn])
               /\ \A i \in 1..Len(conv'.valid) : conv'.valid[i].turn = conv.turn
          /\ (WritesDone(conv.turn)' /\ ~WritesDone(conv.turn)) =>
               \/ conv'.pc = "pub_turn_completed"
               \/ conv'.turn = conv.turn + 1 /\ conv'.pc \in {"pub_turn_started", "launch"}
               \/ conv.turn = conv.n_turns
                    /\ conv'.pc \in {"pub_consensus_started", "consensus"}
          /\ Launches =>
               \A a \in Agents : tasks'[a].turn = conv.turn /\ Running(tasks'[a])]_vars

\* An agent failed at turn 1, the reply of the other one was written, and the
\* agent that failed is running again at turn 2.
C9_Witness ==
    \E a \in Agents :
        /\ a \notin replied[1] /\ replied[1] # {}
        /\ Len(AgentMessages(audit, 1)) = Cardinality(replied[1])
        /\ Len(AgentMessages(bus, 1)) = Cardinality(replied[1])
        /\ tasks[a].turn = 2 /\ tasks[a].pc = "llm"

C11_LlmFailureAbstains ==
    /\ \A i \in 1..Len(audit) : audit[i].content # generate_response(FALSE)
    /\ \A i \in 1..Len(bus) : bus[i].content # generate_response(FALSE)
    /\ \A a \in Agents :
         tasks[a].pc = "returned" => tasks[a].content # generate_response(FALSE)

\* The messages of a log written by one sender.
MessagesFrom(log, sender) == SelectSeq(log, LAMBDA m : m.sender = sender)

\* C12: when a run with N turns and K agents has completed, the audit store
\* holds exactly one user message, at turn 0, exactly one consensus message,
\* at turn N+1, and for each turn t in 1..N at least one and at most K agent
\* messages, no two of them from the same agent; there is no agent message of
\* another turn.
C12_CompletedAuditShape ==
    conv.pc = "completed" =>
        /\ MessagesFrom(audit, "user") = <<Message("user", "prompt", 0)>>
        /\ MessagesFrom(audit, "consensus")
              = <<Message("consensus", "answer", conv.n_turns + 1)>>
        /\ \A t \in 1..conv.n_turns :
              /\ Len(AgentMessages(audit, t)) >= 1
              /\ Len(AgentMessages(audit, t)) <= NUM_AGENTS
              /\ Cardinality(Senders(AgentMessages(audit, t)))
                    = Len(AgentMessages(audit, t))
        /\ \A i \in 1..Len(audit) :
              audit[i].sender \notin {"user", "consensus"}
                 => audit[i].turn \in 1..conv.n_turns

\* A run of two turns has completed; one turn has fewer than K messages.
C12_Witness ==
    /\ conv.pc = "completed" /\ conv.n_turns = 2
    /\ \E t \in 1..2 : Len(AgentMessages(audit, t)) < NUM_AGENTS
    /\ \E t \in 1..2 : Len(AgentMessages(audit, t)) = NUM_AGENTS

\* C13: in every state in which the run has returned or raised, the audit
\* store holds a ConversationResult if and only if it holds the consensus
\* message.
C13_ResultIffConsensusMessage ==
    conv.pc \in {"completed", "failed"} =>
        (results > 0 <=> "consensus" \in Senders(audit))

\* C14: at every moment the sequence of messages in the bus stream of the
\* conversation is a prefix of the sequence of messages logged to the audit
\* store: a message is logged before it is sent to the bus, and the two
\* sequences have the same order (a stream is trimmed only beyond
\* redis_stream_maxlen entries, which no conversation of these sizes reaches).
C14_BusPrefixOfAudit ==
    /\ Len(bus) <= Len(audit)
    /\ \A i \in 1..Len(bus) : bus[i] = audit[i]

\* Replies are on the bus, and one more message is logged than sent.
C14_Witness ==
    /\ Len(bus) >= 3 /\ Len(bus) < Len(audit)
    /\ bus[Len(bus)].sender \notin {"user", "consensus"}
    /\ conv.pc = "send_response"

(***************************************************************************)
(* Consensus properties                                                    *)
(***************************************************************************)

\* The call has returned a ConsensusResult.
ConsensusReturned == cs_pc = "done" /\ consensus_result.raised = "none"

\* The contents of the messages of the agents in the input.
AgentContents ==
    {agent_responses(consensus_messages)[i].content :
        i \in 1..Len(agent_responses(consensus_messages))}

\* C15: with exactly one agent and at least one turn, the consensus outcome of
\* the conversation has method single_response and its final answer is the
\* content of the agent's final-turn message, for each of the three algorithms.
C15_SingleAgentSingleResponse ==
    (/\ ConsensusReturned
     /\ cs_via = "run"
     /\ Len(agent_responses(consensus_messages)) = 1) =>
        /\ consensus_result.value.consensus_method = "single_response"
        /\ consensus_result.value.final_answer
              = agent_responses(consensus_messages)[1].content

\* C16: with majority_vote, when the final-turn messages of two or more agents
\* all carry distinct ballots, the outcome of the conversation is the longest
\* agent message (of equal lengths the smallest), with winning_votes = 1 and
\* total_votes the number of final-turn agent messages; for the worked example
\* it is "Red is warm." with 1 of 3 votes.
C16_DistinctBallotsLongestReply ==
    (/\ ConsensusReturned
     /\ cs_via = "run"
     /\ consensus_result.algorithm = "majority_vote"
     /\ Len(agent_responses(consensus_messages)) >= 2
     /\ \A i, j \in 1..Len(agent_responses(consensus_messages)) :
           i # j => first_line(agent_responses(consensus_messages)[i].content)
                       # first_line(agent_responses(consensus_messages)[j].content)) =>
        /\ consensus_result.value.final_answer
              = (CHOOSE c \in AgentContents :
                    \A d \in AgentContents : d = c \/ KeyLess(c, d))
        /\ consensus_result.value.winning_votes = 1
        /\ consensus_result.value.total_votes
              = Len(agent_responses(consensus_messages))
        /\ consensus_messages = PickAColor =>
              consensus_result.value.final_answer = PickAColor[3].content

RECURSIVE TrimmedBallot(_)
\* The first non-empty trimmed line of a text (empty for a blank text).
TrimmedBallot(s) ==
    LET l == UpToNewline(s)
    IN  IF strip(l) # <<>> THEN strip(l)
        ELSE IF Len(l) = Len(s) THEN <<>>
        ELSE TrimmedBallot(SubSeq(s, Len(l) + 2, Len(s)))

\* The number of messages of the input that carry ballot b.
TrimmedCount(b) ==
    Cardinality({i \in 1..Len(consensus_messages) :
                    TrimmedBallot(consensus_messages[i].content) = b})

\* The ballots with the highest count.
TrimmedTop ==
    LET ballots == {TrimmedBallot(consensus_messages[i].content) :
                       i \in 1..Len(consensus_messages)}
    IN  {b \in ballots : \A c \in ballots : TrimmedCount(c) <= TrimmedCount(b)}

\* The messages of the input whose ballot is among the highest.
TrimmedTopMessages ==
    {i \in 1..Len(consensus_messages) :
        TrimmedBallot(consensus_messages[i].content) \in TrimmedTop}

\* C17: for an input of two or more messages majority_vote returns the full
\* content of a message whose ballot (the first non-empty trimmed line) has the
\* highest count: with a single such ballot the first message of the input
\* that carries it, otherwise the first under (descending length, ascending
\* content) among the messages whose ballot is tied for highest; winning_votes
\* is the highest count and total_votes the size of the input.
C17_MajorityWinner ==
    (/\ ConsensusReturned
     /\ consensus_result.algorithm = "majority_vote"
     /\ Len(consensus_messages) >= 2) =>
        /\ consensus_result.value.final_answer =
              IF Cardinality(TrimmedTop) = 1
              THEN consensus_messages[CHOOSE i \in TrimmedTopMessages :
                                         \A j \in TrimmedTopMessages : i <= j].content
              ELSE CHOOSE c \in {consensus_messages[i].content : i \in TrimmedTopMessages} :
                      \A j \in TrimmedTopMessages :
                         consensus_messages[j].content = c
                            \/ KeyLess(c, consensus_messages[j].content)
        /\ \A b \in TrimmedTop : consensus_result.value.winning_votes = TrimmedCount(b)
        /\ consensus_result.value.total_votes = Len(consensus_messages)

(***************************************************************************)
(* Properties of the WebSocket manager                                     *)
(***************************************************************************)

\* C18: no call of send_to_conversation raises to its caller, whatever the
\* interleaving of connect, disconnect, failing writes and overlapping calls,
\* and when a call has returned the WebSockets whose write failed during it
\* are no longer subscribed.
C18_PublishNeverRaises ==
    \A p \in Publishers :
        /\ hub_pub[p].pc # "raised"
        /\ hub_pub[p].pc = "returned" =>
              hub_pub[p].disconnected_websockets \cap active_connections = {}

\* The events a WebSocket has received are in the order of their publication.
InOrder(w) ==
    \A i, j \in 1..Len(delivered[w]) : i < j => delivered[w][i] < delivered[w][j]

\* The events a WebSocket has received.
Received(w) == {delivered[w][i] : i \in 1..Len(delivered[w])}

\* C19: a WebSocket that has stayed subscribed and working receives the events
\* of the conversation in the order of their publication: what it has received
\* is in that order at every moment, and when no send is under way it has
\* received every event published since it connected.
C19_PerSubscriberOrder ==
    \A w \in active_connections \ ws_broken :
        /\ InOrder(w)
        /\ (\A p \in Publishers : hub_pub[p].pc # "sending") =>
              (attached_at[w] + 1)..Len(published) \subseteq Received(w)

(***************************************************************************)
(* Properties of the subscription                                          *)
(***************************************************************************)

\* C20: an entry is acknowledged only after its handler returned, an entry
\* whose handler raised stays pending, and every entry appended to the stream
\* is eventually handled successfully when the handler eventually succeeds.
C20_AtLeastOnce ==
    /\ [](acked \subseteq handled)
    /\ [](\A m \in Entries :
            (m <= last_delivered_id /\ m \notin handled
               /\ ~(sub_pc = "handle" /\ \E i \in 1..Len(sub_batch) : sub_batch[i] = m))
            => m \in pending)
    /\ \A m \in Entries : (m <= stream_len) ~> (m \in handled)

(***************************************************************************)
(* Properties of execute_with_retry                                        *)
(***************************************************************************)

\* Caller p's operation fails in this step, inside execute_with_retry.
FailsInExecute(p) ==
    /\ call[p].kind = "execute" /\ call[p].pc = "running"
    /\ call'[p].pc # "running"
    /\ cb_last'.op = "failure" /\ cb_last'.by = p

\* C27: when the failure of an attempt of execute_with_retry opens the
\* breaker, the call ends there: it does not go to a backoff sleep, and so it
\* makes no further attempt.
C27_StopsWhenBreakerOpens ==
    [][\A p \in Callers :
         (FailsInExecute(p) /\ breaker.state # OPEN /\ breaker'.state = OPEN)
            => call'[p].pc = "done"]_vars

\* C28: when the operation raises a NonRetryableError inside
\* execute_with_retry, the call ends in the same step with that error as its
\* result: the operation is not invoked again, there is no backoff sleep, and
\* the failure is recorded in the breaker once.
C28_NonRetryableEndsAtOnce ==
    [][\A p \in Callers :
         (FailsInExecute(p) /\ call'[p].last_exception = "NonRetryableError") =>
            /\ call'[p].pc = "done"
            /\ call'[p].result = "NonRetryableError"
            /\ call'[p].invoked = call[p].invoked
            /\ call'[p].slept = call[p].slept
            /\ breaker' = record_failure(breaker, cb_now)
            /\ cb_streak' = cb_streak + 1]_vars

\* A call of execute_with_retry has ended on a NonRetryableError raised by its
\* first attempt, with attempts left.
C28_Witness ==
    \E p \in Callers :
        /\ call[p].kind = "execute" /\ call[p].pc = "done"
        /\ call[p].result = "NonRetryableError"
        /\ call[p].attempt = 0 /\ call[p].attempt < MAX_ATTEMPTS - 1
        /\ call[p].invoked = 1 /\ call[p].slept = 0
        /\ cb_last = [op |-> "failure", by |-> p]

\* C29: a failure recorded while the breaker is HalfOpen moves it to Open,
\* stamps the change with the present time and sets success_count to 0; and
\* as long as fewer than TIMEOUT_SECONDS have passed since the breaker last
\* moved to Open, a call that reaches check_state is rejected and its
\* operation is not invoked.
C29_HalfOpenFailureReopens ==
    /\ [][(breaker.state = HALF_OPEN /\ cb_last'.op = "failure"
             /\ \E p \in Callers : call[p].pc = "running" /\ call'[p].pc # "running")
          => /\ breaker'.state = OPEN
             /\ breaker'.state_change_time = cb_now
             /\ breaker'.success_count = 0
             /\ cb_opened' = cb_now]_vars
    /\ [][\A p \in Callers :
            (breaker.state = OPEN /\ cb_now - cb_opened < TIMEOUT_SECONDS
               /\ call[p].pc = "attempt" /\ call'[p] # call[p])
            => /\ cb_last'.op = "rejected"
               /\ call'[p].invoked = call[p].invoked
               /\ breaker'.state = OPEN]_vars

\* The breaker has gone from HalfOpen back to Open on a failure that came
\* after a successful probe: the streak of failures is 1, below the threshold.
C29_Witness ==
    /\ breaker.state = OPEN /\ cb_last.op = "failure"
    /\ cb_streak = 1 /\ cb_streak < FAILURE_THRESHOLD
    /\ breaker.state_change_time = cb_now /\ cb_now >= TIMEOUT_SECONDS
    /\ breaker.success_count = 0

(***************************************************************************)
(* Properties of the block of the rate limiter                             *)
(***************************************************************************)

\* C30: a request that the rate limiter rejects leaves the bucket with
\* blocked_until no later than the end of the current window; a request that
\* sets the block sets it to min(now + W, window_start + W); and the
\* retry_after it reports is at most the time left in the window.
C30_BlockEndsWithWindow ==
    [][\A i \in Identifiers :
         (rl_seq'[i] # rl_seq[i] /\ ~rl_result'[i].allowed) =>
            LET rl == rate_limits'[i]
                window_end == rl.window_start + RATE_LIMIT_WINDOW
            IN  /\ rl.blocked_until <= window_end
                /\ (i \notin DOMAIN rate_limits
                      \/ rate_limits[i].blocked_until # rl.blocked_until)
                   => rl.blocked_until = Min(rl_now + RATE_LIMIT_WINDOW, window_end)
                /\ rl_result'[i].retry_after <= window_end - rl_now]_vars

(***************************************************************************)
(* Properties of the end of a conversation run                             *)
(***************************************************************************)

\* C23: a run that has returned has called reach_consensus once and written
\* one ConversationResult and one consensus message; the ConversationResult
\* is written when the consensus message is the last row of the audit store
\* and the replies of every turn are in it, and no message is written after.
C23_OneConsensusOneResult ==
    /\ [](conv.pc = "completed" =>
            /\ consensus_calls = 1
            /\ results = 1
            /\ Len(MessagesFrom(audit, "consensus")) = 1)
    /\ [][results' # results =>
            /\ results = 0 /\ results' = 1
            /\ audit' = audit
            /\ audit # <<>> /\ audit[Len(audit)].sender = "consensus"
            /\ \A t \in 1..conv.n_turns :
                  Len(AgentMessages(audit, t)) = Cardinality(replied[t])]_vars
    /\ [][results >= 1 => audit' = audit]_vars

\* A run of MaxTurns turns has returned, with the replies of every agent.
C23_Witness ==
    /\ conv.pc = "completed" /\ conv.n_turns = MaxTurns
    /\ results = 1 /\ consensus_calls = 1
    /\ \A t \in 1..MaxTurns : replied[t] = Agents
    /\ Len(audit) = 2 + MaxTurns * NUM_AGENTS

\* The types of the events that the run itself has sent to subscribers.
RunEventTypes == {e.type : e \in {x \in events : x.agent = "run"}}

\* C26: a streaming run that has returned has sent conversation_completed and
\* no error event; one that has raised has sent an error event and no
\* conversation_completed; and no run has sent both.
C26_ExactlyOneTerminalState ==
    conv.hub =>
        /\ conv.pc = "completed" =>
              /\ "conversation_completed" \in RunEventTypes
              /\ "error" \notin RunEventTypes
        /\ conv.pc = "failed" =>
              /\ "error" \in RunEventTypes
              /\ "conversation_completed" \notin RunEventTypes
        /\ ~({"conversation_completed", "error"} \subseteq RunEventTypes)

(***************************************************************************)
(* Properties of the API keys                                              *)
(***************************************************************************)

\* C21: after a key has been revoked, validate_api_key of that key returns
\* None and check_permission on its APIKey is false, in every later state; and
\* the usage_count of an APIKey that is not active does not grow.
C21_RevokedStaysRejected ==
    /\ []((auth_last.op \in {"validate", "check_permission"}
             /\ auth_last.key \in revoked) => ~auth_last.accepted)
    /\ [][\A h \in DOMAIN api_keys :
            (~api_keys[h].is_active /\ ~api_keys'[h].is_active)
               => api_keys'[h].usage_count = api_keys[h].usage_count]_vars

\* C22: check_permission accepts an active key exactly when its permissions
\* hold the required permission or admin:all, and an admin operation (cleanup,
\* export) accepts an authenticated key exactly when its permissions hold
\* admin or admin:all.
C22_AuthorisedIffPermission ==
    /\ (auth_last.op = "check_permission"
          /\ api_keys[hash_key(auth_last.key)].is_active) =>
          (auth_last.accepted <=>
              \/ auth_last.permissions \subseteq
                    api_keys[hash_key(auth_last.key)].permissions
              \/ "admin:all" \in api_keys[hash_key(auth_last.key)].permissions)
    /\ auth_last.op = "admin" =>
          (auth_last.accepted <=>
              \/ "admin" \in auth_last.permissions
              \/ "admin:all" \in auth_last.permissions)

(***************************************************************************)
(* Orchestrator lifecycle and conversation ids                             *)
(***************************************************************************)

\* C24: initialize is idempotent.  Whenever the orchestrator is initialized
\* and no call of initialize is in flight, whatever calls were made before
\* (overlapping ones and calls after cleanup included), self.agents holds
\* exactly one Agent per configured agent, the bus and the logger have been
\* connected once per initialisation, and every run that has passed its turn
\* has fanned out to exactly NUM_AGENTS agents.
C24_InitializeIdempotent ==
    /\ (initialized /\ \A c \in Initializers : init_pc[c] = "idle") =>
          /\ \A a \in Agents :
               Cardinality({i \in DOMAIN agents : agents[i] = a}) = 1
          /\ connect_calls.redis = initialisations
          /\ connect_calls.postgres = initialisations
    /\ \A r \in Runs :
          runs[r].pc \in {"consensus", "log_result", "returned"} =>
             Cardinality({m \in message_rows :
                            m.id[1] = r /\ m.id[2] = "agent"}) = NUM_AGENTS

\* C25: a conversation_id is run at most once.  The rows of the messages
\* table that carry one conversation_id were all written by one run, so a
\* second run under that id has added no user, agent or consensus message.
C25_ConversationIdRunOnce ==
    \A m1, m2 \in message_rows :
       m1.conversation_id = m2.conversation_id => m1.id[1] = m2.id[1]

(***************************************************************************)
(* Order of the writes of a run, cancellation, histories and timestamps    *)
(***************************************************************************)

\* C31: no agent_response event is published for a reply that has not yet
\* been written to the audit store and appended to the bus stream: the order
\* of effects of a successful reply is audit, bus, broadcast.
C31_ReplyWrittenBeforeBroadcast ==
    \A e \in events :
       e.type = "agent_response" =>
          /\ \E i \in DOMAIN audit :
                audit[i].sender = e.agent /\ audit[i].turn = e.turn
          /\ \E i \in DOMAIN bus :
                bus[i].sender = e.agent /\ bus[i].turn = e.turn

\* C32: every message written to the audit store, the consensus message
\* included, is appended to the bus stream in the same step, so that the bus
\* stream and the audit record of a completed conversation hold the same
\* messages.
C32_AuditAndBusHoldTheSame ==
    /\ [](conv.pc = "completed" => bus = audit)
    /\ [][audit' # audit => bus' = xadd(bus, audit'[Len(audit')])]_vars

\* C34: a streaming run that was cancelled has no task left running, has
\* published an error event, and no consensus message and no
\* ConversationResult is written once it is cancelled.
C34_CancelPublishesError ==
    /\ []((conv.pc = "cancelled" /\ conv.hub) =>
             /\ \A a \in Agents : tasks[a].pc \in Terminated \cup {"none"}
             /\ "error" \in RunEventTypes)
    /\ [][conv.pc = "cancelled" => (audit' = audit /\ results' = results)]_vars

(***************************************************************************)
(* ConsensusEngine: two messages with one first line, and synthesis        *)
(***************************************************************************)

\* C36: for a majority vote over exactly two messages with identical first
\* lines the answer is the longer content and, for contents of equal length,
\* the lexicographically smaller one, whatever the order of the input.
C36_TwoMessagesOneFirstLine ==
    (/\ cs_pc = "done"
     /\ consensus_result.algorithm = "majority_vote"
     /\ consensus_result.raised = "none"
     /\ Len(consensus_messages) = 2
     /\ first_line(consensus_messages[1].content) =
           first_line(consensus_messages[2].content)) =>
        LET a == consensus_messages[1].content
            b == consensus_messages[2].content
        IN  consensus_result.value.final_answer =
               IF a = b \/ KeyLess(a, b) THEN a ELSE b

\* C38: a synthesis over two or more messages returns the fused text with
\* winning_votes = number of agent messages, total_votes = size of the input,
\* confidence 0.9 and method "synthesis"; and the method of every outcome is
\* one of single_response, majority_vote_with_tiebreak, semantic_clustering
\* and synthesis.
C38_SynthesisOutcome ==
    /\ (/\ cs_pc = "done"
        /\ consensus_result.algorithm = "synthesis"
        /\ consensus_result.raised = "none"
        /\ Len(consensus_messages) >= 2) =>
           /\ consensus_result.value.winning_votes =
                 Len(agent_responses(consensus_messages))
           /\ consensus_result.value.total_votes = Len(consensus_messages)
           /\ consensus_result.value.confidence_score = 9
           /\ consensus_result.value.consensus_method = "synthesis"
    /\ ConsensusReturned =>
          consensus_result.value.consensus_method \in
             {"single_response", "majority_vote_with_tiebreak",
              "semantic_clustering", "synthesis"}

(***************************************************************************)
(* Histories given to the agents, and timestamps                           *)
(***************************************************************************)

\* C33: the agents of a turn are given the same history, and a history given
\* at turn t holds no message of turn t or later.
C33_SameHistoryWithoutTheTurn ==
    /\ \A a, b \in Agents :
          (tasks[a].read /\ tasks[b].read) => tasks[a].history = tasks[b].history
    /\ \A a \in Agents :
          tasks[a].read =>
             \A i \in DOMAIN tasks[a].history :
                tasks[a].history[i].turn < tasks[a].turn

\* C35: in the order in which the messages are written to the audit store
\* and to the bus stream their timestamps never decrease.  The messages of a
\* turn are constructed after those of the turns before it were written; of
\* two replies of the turn in progress the timestamps are those their tasks
\* took at the construction.
C35_TimestampsNeverDecrease ==
    LET InWritingOrder(log) ==
           \A i, j \in DOMAIN log :
              i < j =>
                 /\ log[i].turn <= log[j].turn
                 /\ \A a, b \in Agents :
                       (/\ log[i].turn = tasks[a].turn
                        /\ log[j].turn = tasks[b].turn
                        /\ log[i].sender = AgentNames[a]
                        /\ log[j].sender = AgentNames[b])
                          => tasks[a].timestamp <= tasks[b].timestamp
    IN  InWritingOrder(audit) /\ InWritingOrder(bus)

\* C37: a read of the history that fails is never reported as an empty
\* history: the stream holds the user's prompt when the agents read it, so
\* no agent goes on to its language model with an empty history.
C37_FailedReadIsNotAnEmptyHistory ==
    \A a \in Agents : tasks[a].read => tasks[a].history # <<>>

(***************************************************************************)
(* Cleanup of the bus                                                      *)
(***************************************************************************)

\* The last entry of a stream with last id ms is older than max_age at time t.
OlderThan(ms, t, max_age) == ms # None /\ t - ms \div MS_PER_SECOND > max_age

\* C39: cleanup deletes every stream whose last entry is older than max_age,
\* leaves every other stream untouched, and returns the number of streams it
\* deleted: when the call has returned, no stream that was old at the call is
\* still there with that last entry, and the count returned is the number of
\* streams deleted; and a stream is deleted only when its last entry is older
\* than max_age.
C39_CleanupDeletesTheOldStreams ==
    /\ [](cleanup_call.pc = "done" =>
            /\ \A s \in 1..NumStreams :
                  OlderThan(cleanup_call.before[s], cleanup_call.called_at,
                            cleanup_call.max_age_seconds)
                     => streams[s] # cleanup_call.before[s]
            /\ cleanup_call.cleaned_count = Cardinality(cleanup_call.deleted))
    /\ [][\A s \in 1..NumStreams :
            (streams[s] # None /\ streams'[s] = None) =>
               OlderThan(streams[s], wall_time, cleanup_call.max_age_seconds)]_vars

(***************************************************************************)
(* Termination of a run                                                    *)
(***************************************************************************)

\* The steps of the run and of its agent tasks.
RunSteps ==
    \/ \E ok \in BOOLEAN : Publish(ok)
    \/ LogUserMessage
    \/ SendUserMessage
    \/ LaunchAgents
    \/ \E a \in Agents : \E ok \in BOOLEAN : AgentPublishes(a, ok)
    \/ \E a \in Agents : \E ok \in BOOLEAN : AgentReadsHistory(a, ok)
    \/ \E a \in Agents : AgentGenerates(a)
    \/ CollectResponses
    \/ LogResponse
    \/ SendResponse
    \/ \E ok \in BOOLEAN : ReachConsensus(ok)
    \/ LogConsensus
    \/ LogConversationResult

\* How far the run is within its turn, and an agent task within its call.
PhaseOf(pc) ==
    CASE pc = "idle" -> 0
      [] pc \in {"pub_started", "pub_turn_started"} -> 1
      [] pc \in {"log_user", "launch"} -> 2
      [] pc \in {"send_user", "gather"} -> 3
      [] pc \in {"pub_message", "pub_no_responses", "log_response",
                 "send_response"} -> 4
      [] pc = "pub_turn_completed" -> 5
      [] pc = "pub_consensus_started" -> 6
      [] pc = "consensus" -> 7
      [] pc = "log_consensus" -> 8
      [] pc = "pub_consensus_reached" -> 9
      [] pc = "log_result" -> 10
      [] pc = "pub_completed" -> 11
      [] pc = "pub_error" -> 12
      [] pc \in {"completed", "failed", "cancelled"} -> 13

TaskPhaseOf(pc) ==
    CASE pc = "none" -> 0
      [] pc = "pub_thinking" -> 1
      [] pc = "history" -> 2
      [] pc = "llm" -> 3
      [] pc = "pub_response" -> 4
      [] pc = "pub_agent_error" -> 5
      [] pc \in Terminated -> 6

RECURSIVE TasksProgress(_)
TasksProgress(a) ==
    IF a > NUM_AGENTS THEN 0 ELSE TaskPhaseOf(tasks[a].pc) + TasksProgress(a + 1)

\* The position of the run, ordered by turn, phase of the turn, response of
\* the writing loop (logged, then sent), and progress of the agent tasks.
RunProgress ==
    ((conv.turn * 14 + PhaseOf(conv.pc)) * (2 * NUM_AGENTS + 2)
       + (IF conv.pc = "log_response" THEN 2 * conv.idx - 1
          ELSE IF conv.pc = "send_response" THEN 2 * conv.idx ELSE 0))
      * (6 * NUM_AGENTS + 1)
    + TasksProgress(1)

\* C40: a run terminates provided the operations it awaits terminate.  The
\* loop over the turns never goes beyond n_turns; a run that has not ended
\* always has a step to take; and every step of the run or of its tasks
\* moves it strictly forward, so that no step is taken twice and the run
\* ends, returned, raised or cancelled, after finitely many steps.
C40_RunTerminates ==
    /\ [](conv.turn <= conv.n_turns)
    /\ [](InProgress => ENABLED RunSteps)
    /\ [][<<conv, tasks>>' # <<conv, tasks>> => RunProgress' > RunProgress]_vars

\* A streaming run of MaxTurns turns has returned.
C40_Witness ==
    /\ conv.pc = "completed" /\ conv.hub
    /\ conv.n_turns = MaxTurns /\ conv.turn = MaxTurns

====
